---- MODULE Spec2Model ----
(***************************************************************************)
(* Substitution Decision Engine of the Complexity Injector extension.      *)
(*                                                                         *)
(* Two implementations of the engine live in the repository: the offscreen *)
(* document (src/offscreen.js lines 1-541) and the AI worker               *)
(* (src/offscreen.js lines 543-1767).  The variable `engine` says which of *)
(* the two a behaviour runs.                                               *)
(*                                                                         *)
(* Strings are sequences of one-character strings, so that toLowerCase,    *)
(* split, replace, indexOf and the \b regular expressions are computed     *)
(* character by character as JavaScript computes them.  Scores are         *)
(* integers, the JavaScript number times 1000.                             *)
(*                                                                         *)
(* The AI worker reads its tables and CONFIG from self (loadDataFromSelf);  *)
(* the model gives it the tables and the CONFIG of data.js, the ones the   *)
(* offscreen document imports.                                             *)
(*                                                                         *)
(* A handler is suspended where it awaits the model provider (pipeline     *)
(* load, feature extraction, mask prediction); the code between two such   *)
(* awaits runs as one step.                                                *)
(*                                                                         *)
(* The background script (src/unnamed/part_001) and the content script     *)
(* (src/content_script.js) have a variable each: `background` holds        *)
(* ExtensionState with the messages and timers of sendToWorker, `page` the *)
(* nodes of the document and State.replacements.  The engine leaves both   *)
(* alone.                                                                  *)
(***************************************************************************)
EXTENDS Integers, Sequences, FiniteSets, TLC

VARIABLES
    engine,            \* "offscreen" | "worker": which implementation runs
    world,             \* the answers of the (deterministic) model provider
    modelLoaded,       \* State.modelLoaded
    modelLoading,      \* State.modelLoading
    extractor,         \* State.extractor is set
    fillMask,          \* State.fillMask is set
    embeddingCache,    \* State.embeddingCache: lowercased word -> vector
    contextCache,      \* State.contextCache: lowercased word -> vectors
    customVocabulary,  \* State.customVocabulary: word -> candidate list
    handlers,          \* request id -> the suspended handler of that request
    responses,         \* request id -> the workerResponse sent for it
    nextId,            \* ids handed out so far (ExtensionState.requestId)
    background,        \* ExtensionState of the background script and its messages
    page               \* the text of the page and State.replacements of the content script

vars == <<engine, world, modelLoaded, modelLoading, extractor, fillMask,
          embeddingCache, contextCache, customVocabulary, handlers, responses,
          nextId, background, page>>

----------------------------------------------------------------------------
(* Characters and JavaScript string primitives                             *)

UpperLetters == <<"A","B","C","D","E","F","G","H","I","J","K","L","M",
                  "N","O","P","Q","R","S","T","U","V","W","X","Y","Z">>
LowerLetters == <<"a","b","c","d","e","f","g","h","i","j","k","l","m",
                  "n","o","p","q","r","s","t","u","v","w","x","y","z">>
Digits == {"0","1","2","3","4","5","6","7","8","9"}
UpperSet == {UpperLetters[i] : i \in 1..26}
LowerSet == {LowerLetters[i] : i \in 1..26}
UpperToLower == [c \in UpperSet |-> LowerLetters[CHOOSE i \in 1..26 : UpperLetters[i] = c]]

\* /\s/
IsSpace(c) == c \in {" ", "\n", "\t"}
\* /\w/
IsWordChar(c) == c \in UpperSet \cup LowerSet \cup Digits \cup {"_"}
\* the class [.,!?;:'\"()-] used to clean tokens
PunctChars == {".", ",", "!", "?", ";", ":", "'", "\"", "(", ")", "-"}

ToLowerChar(c) == IF c \in UpperSet THEN UpperToLower[c] ELSE c

\* String.prototype.toLowerCase
toLowerCase(s) == [i \in 1..Len(s) |-> ToLowerChar(s[i])]

\* s has sub at the 1-based position i
StartsAt(s, sub, i) ==
    /\ i >= 1
    /\ i + Len(sub) - 1 <= Len(s)
    /\ \A k \in 1..Len(sub) : s[i + k - 1] = sub[k]

Min(S) == CHOOSE x \in S : \A y \in S : x <= y
Max(S) == CHOOSE x \in S : \A y \in S : x >= y

\* String.prototype.indexOf: 0-based, -1 when absent
indexOf(s, sub) ==
    LET hits == {i \in 1..(Len(s) + 1) : StartsAt(s, sub, i)}
    IN  IF hits = {} THEN -1 ELSE Min(hits) - 1

\* String.prototype.includes
includes(s, sub) == indexOf(s, sub) # -1

\* String.prototype.substring(a, b), 0-based, end exclusive
substring(s, a, b) == SubSeq(s, a + 1, b)

\* String.prototype.trim
trim(s) ==
    LET keep == {i \in 1..Len(s) : ~IsSpace(s[i])}
    IN  IF keep = {} THEN <<>> ELSE SubSeq(s, Min(keep), Max(keep))

\* String.prototype.split(/\s+/): an empty piece stands for leading and for
\* trailing whitespace, and "" splits into [""]
RECURSIVE splitWhitespace(_)
splitWhitespace(s) ==
    LET spaces == {i \in 1..Len(s) : IsSpace(s[i])}
    IN  IF spaces = {} THEN <<s>>
        ELSE LET i == Min(spaces)
                 rest == {j \in i..Len(s) : ~IsSpace(s[j])}
                 j == IF rest = {} THEN Len(s) + 1 ELSE Min(rest)
             IN  <<SubSeq(s, 1, i - 1)>> \o splitWhitespace(SubSeq(s, j, Len(s)))

\* .replace(/[.,!?;:'\"()-]/g, ''): every character of the class is removed,
\* wherever it stands in the token
stripPunctuation(s) == SelectSeq(s, LAMBDA c : c \notin PunctChars)

\* Array.prototype.slice(-n)
sliceLast(q, n) == IF Len(q) <= n THEN q ELSE SubSeq(q, Len(q) - n + 1, Len(q))

\* Array.prototype.slice(0, n)
sliceFirst(q, n) == IF Len(q) <= n THEN q ELSE SubSeq(q, 1, n)

\* \b at the 1-based position p of s (between s[p-1] and s[p])
WordBoundary(s, p) ==
    LET before == p > 1 /\ p - 1 <= Len(s) /\ IsWordChar(s[p - 1])
        after  == p >= 1 /\ p <= Len(s) /\ IsWordChar(s[p])
    IN  before # after

\* the 1-based positions where new RegExp(`\\b${escapeRegExp(w)}\\b`, 'i')
\* matches s; escapeRegExp makes w a literal
WordMatches(s, w) ==
    {i \in 1..Len(s) :
        /\ StartsAt(toLowerCase(s), toLowerCase(w), i)
        /\ WordBoundary(s, i)
        /\ WordBoundary(s, i + Len(w))}

\* s.replace(new RegExp(`\\b${escapeRegExp(w)}\\b`, 'i'), r): the first
\* match only, r inserted as written
replaceWord(s, w, r) ==
    LET hits == WordMatches(s, w)
    IN  IF hits = {} THEN s
        ELSE LET i == Min(hits)
             IN  SubSeq(s, 1, i - 1) \o r \o SubSeq(s, i + Len(w), Len(s))

----------------------------------------------------------------------------
(* Words of the data tables and of the inputs                              *)

W_hot == <<"h","o","t">>
W_cold == <<"c","o","l","d">>
W_big == <<"b","i","g">>
W_new == <<"n","e","w">>
W_small == <<"s","m","a","l","l">>
W_archaic == <<"a","r","c","h","a","i","c">>
W_scalding == <<"s","c","a","l","d","i","n","g">>
W_torrid == <<"t","o","r","r","i","d">>
W_frigid == <<"f","r","i","g","i","d">>
W_enormous == <<"e","n","o","r","m","o","u","s">>
W_novel == <<"n","o","v","e","l">>
W_warm == <<"w","a","r","m">>
W_not == <<"n","o","t">>
W_never == <<"n","e","v","e","r">>
W_isnt == <<"i","s","n","'","t">>
W_dont == <<"d","o","n","'","t">>
W_slightly == <<"s","l","i","g","h","t","l","y">>
W_rather == <<"r","a","t","h","e","r">>
W_a_bit == <<"a"," ","b","i","t">>
W_kind_of == <<"k","i","n","d"," ","o","f">>
W_very == <<"v","e","r","y">>
W_too == <<"t","o","o">>
W_so == <<"s","o">>
W_dr == <<"d","r">>
W_king == <<"k","i","n","g">>
W_mr == <<"m","r">>
P_hot_water == <<"h","o","t"," ","w","a","t","e","r">>
P_hot_dog == <<"h","o","t"," ","d","o","g">>
P_big_deal == <<"b","i","g"," ","d","e","a","l">>
P_brand_new == <<"b","r","a","n","d"," ","n","e","w">>
P_hot_springs == <<"h","o","t"," ","s","p","r","i","n","g","s">>
P_new_york == <<"n","e","w"," ","y","o","r","k">>
P_big_ben == <<"b","i","g"," ","b","e","n">>
MASK == <<"[","M","A","S","K","]">>

\* a property that is absent from a JavaScript object (entry.word, entry.synonym)
UNDEFINED == <<"undefined">>

----------------------------------------------------------------------------
(* data.js: thresholds (times 1000) and tables.  The tables hold a         *)
(* selection of the entries of the source tables.                          *)

EMBEDDING_MIN == 500
EMBEDDING_MAX == 990
EMBEDDING_TRUST_THRESHOLD == 600
SYNTAX_FLOOR == -6000
SEMANTIC_FLOOR == 100
SEMANTIC_OVERRIDE == 800
MAX_WORDS_PER_BATCH == 1000
\* CONFIG.MAX_DENSITY = 0.50 as a fraction
MAX_DENSITY == [num |-> 1, den |-> 2]
\* the score scoreSyntax returns when the candidate is not predicted: -10
SYNTAX_MISSING == -10000

BlockReason ==
    {"PASSED", "ANTONYM_DETECTED", "NOT_SIMILAR_ENOUGH", "TOO_SIMILAR",
     "PROPER_NOUN", "IDIOM_DETECTED", "NEGATION_CONTEXT", "SYNTAX_FAILED",
     "SEMANTIC_FAILED", "NOT_IN_VOCAB", "MODEL_NOT_READY"}

\* a candidate of the vocabulary: the synonym and the number of its examples
Candidate(w, n) == [word |-> w, examples |-> n]

GREVocabularyDatabase ==
    (W_hot :> <<Candidate(W_scalding, 3), Candidate(W_torrid, 3)>>) @@
    (W_big :> <<Candidate(W_enormous, 3)>>) @@
    (W_new :> <<Candidate(W_novel, 3)>>)

AntonymPairs ==
    << <<W_hot, W_cold>>, <<W_scalding, W_frigid>>, <<W_big, W_small>>,
       <<W_archaic, W_new>> >>

IdiomDatabase ==
    (W_hot :> <<P_hot_dog, P_hot_water>>) @@
    (W_big :> <<P_big_deal>>) @@
    (W_new :> <<P_brand_new>>)

ProperNounPatterns == <<P_hot_springs, P_new_york, P_big_ben>>

TitlePatterns == <<W_dr, W_mr, W_king>>

NegatorWords == {W_not, W_never, W_isnt, W_dont}

DiminisherWords == {W_slightly, W_a_bit, W_kind_of, W_rather}

IntensifierWords == {W_very, W_so, W_too}

\* obj[key] || [] on a table
Lookup(table, key) == IF key \in DOMAIN table THEN table[key] ELSE <<>>

W_constructor == <<"c","o","n","s","t","r","u","c","t","o","r">>
W___proto__ == <<"_","_","p","r","o","t","o","_","_">>

\* the lower-case property names an object literal inherits from
\* Object.prototype: GREVocabularyDatabase[key] is a function or an object for
\* them, neither undefined nor an array
ObjectPrototypeKeys == {W_constructor, W___proto__}

\* GREVocabularyDatabase[key] as a condition
Truthy(table, key) == key \in DOMAIN table \/ key \in ObjectPrototypeKeys

\* GREVocabularyDatabase[key] is an inherited value: spreading it or
\* iterating it with for...of throws a TypeError
NotIterable(table, key) == key \notin DOMAIN table /\ key \in ObjectPrototypeKeys

----------------------------------------------------------------------------
(* Heuristic guards                                                        *)

\* isAntonym without the toLowerCase of its arguments
isAntonymCased(word1, word2) ==
    \E i \in 1..Len(AntonymPairs) :
        \/ AntonymPairs[i][1] = word1 /\ AntonymPairs[i][2] = word2
        \/ AntonymPairs[i][1] = word2 /\ AntonymPairs[i][2] = word1

isAntonym(word1, word2) ==
    LET w1 == toLowerCase(word1)
        w2 == toLowerCase(word2)
    IN  \E i \in 1..Len(AntonymPairs) :
            \/ AntonymPairs[i][1] = w1 /\ AntonymPairs[i][2] = w2
            \/ AntonymPairs[i][1] = w2 /\ AntonymPairs[i][2] = w1

\* checkIdiom looking at the first phrase of the word only
checkIdiomFirst(sentence, targetWord) ==
    LET lower == toLowerCase(targetWord)
        sentenceLower == toLowerCase(sentence)
        idioms == Lookup(IdiomDatabase, lower)
    IN  Len(idioms) > 0 /\ includes(sentenceLower, idioms[1])

checkIdiom(sentence, targetWord) ==
    LET lower == toLowerCase(targetWord)
        sentenceLower == toLowerCase(sentence)
        idioms == Lookup(IdiomDatabase, lower)
    IN  \E i \in 1..Len(idioms) : includes(sentenceLower, idioms[i])

\* checkProperNoun without the toLowerCase of the sentence
KnownProperNounCased(sentence, targetWord) ==
    LET lower == toLowerCase(targetWord)
    IN  \E i \in 1..Len(ProperNounPatterns) :
            /\ includes(sentence, ProperNounPatterns[i])
            /\ includes(ProperNounPatterns[i], lower)

\* the loop over ProperNounPatterns, common to both engines
KnownProperNoun(sentence, targetWord) ==
    LET lower == toLowerCase(targetWord)
        sentenceLower == toLowerCase(sentence)
    IN  \E i \in 1..Len(ProperNounPatterns) :
            /\ includes(sentenceLower, ProperNounPatterns[i])
            /\ includes(ProperNounPatterns[i], lower)

\* the end (exclusive, 1-based) of the match of
\* new RegExp(`\\b${title}\\.?\\s+([A-Z][a-z]+)`, 'i') that starts at i, 0 if
\* none.  Under the i flag [A-Z] and [a-z] both match every letter.
TitleMatchEnd(s, title, i) ==
    LET n == Len(title)
        IsLetter(c) == c \in UpperSet \cup LowerSet
        afterDot == IF i + n <= Len(s) /\ s[i + n] = "." THEN i + n + 1 ELSE i + n
        \* \s+ then the letters, tried after the optional dot and without it
        Tail2(p) ==
            LET nonSpace == {j \in p..Len(s) : ~IsSpace(s[j])}
                q == IF nonSpace = {} THEN Len(s) + 1 ELSE Min(nonSpace)
                nonLetter == {j \in q..Len(s) : ~IsLetter(s[j])}
                e == IF nonLetter = {} THEN Len(s) + 1 ELSE Min(nonLetter)
            IN  IF q > p /\ e > q THEN e ELSE 0
    IN  IF ~(StartsAt(toLowerCase(s), title, i) /\ WordBoundary(s, i)) THEN 0
        ELSE IF Tail2(afterDot) # 0 THEN Tail2(afterDot)
        ELSE Tail2(i + n)

\* the title rule of the AI worker's checkProperNoun
TitleProperNoun(sentence, targetWord) ==
    LET lower == toLowerCase(targetWord)
        sentenceLower == toLowerCase(sentence)
    IN  \E t \in 1..Len(TitlePatterns) :
            LET starts == {i \in 1..Len(sentence) :
                              TitleMatchEnd(sentence, TitlePatterns[t], i) # 0}
            IN  /\ starts # {}
                /\ LET i == Min(starts)
                       match0 == SubSeq(sentence, i,
                                     TitleMatchEnd(sentence, TitlePatterns[t], i) - 1)
                       targetIdx == indexOf(sentenceLower, lower)
                       matchStart == indexOf(sentenceLower, toLowerCase(match0))
                       matchEnd == matchStart + Len(match0)
                   IN  targetIdx >= matchStart /\ targetIdx < matchEnd

checkProperNoun(eng, sentence, targetWord) ==
    \/ KnownProperNoun(sentence, targetWord)
    \/ eng = "worker" /\ TitleProperNoun(sentence, targetWord)

\* the words checkNegation looks at: the last four pieces of the text before
\* the first place the lowercased target occurs as a substring
PrecedingWords(sentence, targetWord) ==
    LET sentenceLower == toLowerCase(sentence)
        targetIdx == indexOf(sentenceLower, toLowerCase(targetWord))
        precedingText == trim(substring(sentenceLower, 0, targetIdx))
    IN  sliceLast(splitWhitespace(precedingText), 4)

checkNegation(eng, sentence, targetWord) ==
    LET sentenceLower == toLowerCase(sentence)
        targetIdx == indexOf(sentenceLower, toLowerCase(targetWord))
        precedingWords == PrecedingWords(sentence, targetWord)
        cleaned(w) == stripPunctuation(w)
        lastWord == cleaned(precedingWords[Len(precedingWords)])
    IN  IF targetIdx = -1
        THEN [isNegated |-> FALSE, expanded |-> targetWord]
        ELSE IF \E i \in 1..Len(precedingWords) :
                    cleaned(precedingWords[i]) \in NegatorWords \cup DiminisherWords
        THEN [isNegated |-> TRUE, expanded |-> targetWord]
        ELSE IF eng = "worker" /\ lastWord \in IntensifierWords
        THEN [isNegated |-> FALSE, expanded |-> lastWord \o <<" ">> \o targetWord]
        ELSE [isNegated |-> FALSE, expanded |-> targetWord]

----------------------------------------------------------------------------
(* The model provider (Transformers.js pipelines), by its answers.         *)
(* `world` fixes them for a behaviour: the provider is deterministic.      *)
(*   world.sim[c]    dot product of the embeddings of c and of the word    *)
(*                   it is compared with                                   *)
(*   world.fill[c]   1000 * ln(score + 1e-10) of the fill-mask prediction  *)
(*                   whose token is c; c outside the domain is not among   *)
(*                   the top 100                                           *)
(*   world.ctx[c]    the largest dot product of a sentence vector and an   *)
(*                   example vector of c                                   *)
(*   world.throws    the texts on which the feature extractor throws       *)

NULLVEC == [kind |-> "null", of |-> <<>>]
\* the text of an example sentence of the candidate c (the sentences are
\* only handed to the provider)
Example(c) == <<"example:">> \o c
Vec(kind, of) == [kind |-> kind, of |-> of]

\* State.extractor(text, {pooling: 'mean', normalize: true}) of
\* Xenova/distilbert-base-uncased: the tokenizer lowercases its input
ExtractorAnswer(kind, text) ==
    IF toLowerCase(text) \in world.throws THEN NULLVEC
    ELSE Vec(kind, toLowerCase(text))

\* State.fillMask(maskedSentence, {topk: 100}): the predictions, or a throw
\* when the text holds no mask token
FillMaskAnswer(maskedSentence) ==
    IF ~includes(maskedSentence, MASK) THEN [threw |-> TRUE, predictions |-> {}]
    ELSE [threw |-> FALSE,
          predictions |-> {[token_str |-> c, logScore |-> world.fill[c]] :
                              c \in DOMAIN world.fill}]

Dot(a, b) ==
    IF a.kind = "word" /\ b.kind = "word"
    THEN IF a.of = b.of THEN 1000
         ELSE IF b.of \in DOMAIN world.sim THEN world.sim[b.of]
         ELSE IF a.of \in DOMAIN world.sim THEN world.sim[a.of]
         ELSE 0
    ELSE IF a.kind = "sentence" /\ b.kind = "example"
    THEN IF Tail(b.of) \in DOMAIN world.ctx THEN world.ctx[Tail(b.of)] ELSE 0
    ELSE 0

cosineSimilarity(a, b) ==
    IF a.kind = "null" \/ b.kind = "null" THEN 0 ELSE Dot(a, b)

\* scoreSyntax comparing the candidate as it was written
SyntaxFromAnswerCased(answer, candidate) ==
    LET hits == {p \in answer.predictions : toLowerCase(trim(p.token_str)) = candidate}
    IN  IF answer.threw \/ hits = {} THEN SYNTAX_MISSING
        ELSE (CHOOSE p \in hits : TRUE).logScore

\* the loop of scoreSyntax over the predictions
SyntaxFromAnswer(answer, candidate) ==
    LET candidateLower == toLowerCase(candidate)
        hits == {p \in answer.predictions :
                    toLowerCase(trim(p.token_str)) = candidateLower}
    IN  IF answer.threw \/ hits = {} THEN SYNTAX_MISSING
        ELSE (CHOOSE p \in hits : TRUE).logScore

----------------------------------------------------------------------------
(* Engine state and handlers                                               *)

\* the fields of State as one record
EngineState ==
    [modelLoaded |-> modelLoaded, modelLoading |-> modelLoading,
     extractor |-> extractor, fillMask |-> fillMask,
     embeddingCache |-> embeddingCache, contextCache |-> contextCache,
     customVocabulary |-> customVocabulary]

EmptyMap == [x \in {} |-> <<>>]

\* const State = {...}
State0 ==
    [modelLoaded |-> FALSE, modelLoading |-> FALSE, extractor |-> FALSE,
     fillMask |-> FALSE, embeddingCache |-> EmptyMap,
     contextCache |-> EmptyMap, customVocabulary |-> EmptyMap]

NullResult == [null |-> TRUE]
IsNull(r) == "null" \in DOMAIN r

\* the pcs at which a handler is suspended on a provider call
WaitingPcs == {"wait_ge", "wait_ctx", "wait_mask", "wait_p1", "wait_p2", "wait_pcx"}

\* a request as handleWorkerMessage receives it, ready to run.  The fields
\* start, gates, calls, masked, psLog, fbLog, vocabLog and embedded record what the
\* handler found and did, and are read by no step.
NewHandler(id, type, args) ==
    [id |-> id, type |-> type, args |-> args, start |-> State0,
     pc |-> CASE type = "processText" -> "pt_start"
              [] type = "findBestSubstitution" -> "fb_start"
              [] type = "processSubstitution" -> "ps_start"
              [] type = "addCustomVocabulary" -> "acv_loop"
              [] type = "clearCustomVocabulary" -> "ccv"
              [] type \in {"init", "loadModel"} -> "lm_start"
              [] OTHER -> "default",
     text |-> IF type = "processText" THEN args.text ELSE <<>>,
     wordsToProcess |-> <<>>, maxSubs |-> 0, wi |-> 1, processedWords |-> {},
     allResults |-> <<>>, clean |-> <<>>,
     sentence |-> IF type \in {"findBestSubstitution", "processSubstitution"}
                  THEN args.sentence ELSE <<>>,
     word |-> IF type = "findBestSubstitution" THEN args.word ELSE <<>>,
     candidates |-> <<>>, ci |-> 1, results |-> <<>>, fbResult |-> NullResult,
     original |-> IF type = "processSubstitution" THEN args.original ELSE <<>>,
     candidate |-> IF type = "processSubstitution" THEN args.candidate ELSE <<>>,
     embOriginal |-> NULLVEC, similarity |-> 0, expanded |-> <<>>,
     ctxVec |-> NULLVEC, syntaxScore |-> 0,
     geWord |-> <<>>, geRet |-> "", geVal |-> NULLVEC,
     pending |-> [kind |-> "none", arg |-> <<>>],
     vi |-> 1, pvWords |-> <<>>, pvi |-> 1, pcCands |-> <<>>, pcj |-> 1,
     pck |-> 1, pcVecs |-> <<>>,
     kind |-> "", result |-> NullResult,
     gates |-> <<>>, calls |-> <<>>, psLog |-> <<>>, fbLog |-> <<>>,
     vocabLog |-> <<>>, embedded |-> <<>>, masked |-> <<>>]

\* sendResponse(id, result)
Done(h, S, result) ==
    [h |-> [h EXCEPT !.pc = "done", !.kind = "result", !.result = result], S |-> S]

\* a catch of handleWorkerMessage that sends neither a result nor an error
ThrewUnanswered(h, S) ==
    [h |-> [h EXCEPT !.pc = "done", !.kind = "none", !.result = NullResult], S |-> S]

\* an exception reaches the catch of handleWorkerMessage: sendError(id, ...)
Threw(h, S) ==
    [h |-> [h EXCEPT !.pc = "done", !.kind = "error", !.result = NullResult], S |-> S]

Goto(h, S, pc) == [h |-> [h EXCEPT !.pc = pc], S |-> S]

\* a provider call is issued and the handler is suspended on it
Call(h, S, kind, arg, pc) ==
    [h |-> [h EXCEPT !.pc = pc, !.pending = [kind |-> kind, arg |-> arg],
                     !.calls = Append(@, kind)],
     S |-> S]

----------------------------------------------------------------------------
(* processSubstitution                                                     *)

\* the object processSubstitution returns; `fields` are the properties it
\* has.  The offscreen engine leaves properties out, the AI worker sets all.
Result(h, passed, reason, stage, sim, syn, sem) ==
    [original |-> h.original, candidate |-> h.candidate, passed |-> passed,
     reason |-> IF engine = "offscreen" /\ stage = "final" THEN "undefined" ELSE reason,
     similarity |-> sim, syntaxScore |-> syn, semanticScore |-> sem,
     fields |->
        IF engine = "worker"
        THEN {"original", "candidate", "passed", "reason", "similarity",
              "syntaxScore", "semanticScore"}
        ELSE CASE stage = "early" -> {"original", "candidate", "passed", "reason"}
               [] stage = "similarity" ->
                    {"original", "candidate", "passed", "reason", "similarity"}
               [] OTHER -> {"original", "candidate", "passed", "similarity",
                            "syntaxScore", "semanticScore"}]

\* the value processSubstitution returns: to the message handler, or to the
\* loop of findBestSubstitution, which keeps it when it passed
FinishPS(h, S, res) ==
    LET h1 == [h EXCEPT !.psLog = Append(@, [result |-> res, gates |-> h.gates,
                                             calls |-> h.calls,
                                             masked |-> h.masked])]
    IN  IF h.type = "processSubstitution" THEN Done(h1, S, res)
        ELSE Goto([h1 EXCEPT !.results = IF res.passed THEN Append(@, res) ELSE @,
                             !.ci = @ + 1], S, "fb_loop")

\* the gates of processSubstitution once both embeddings are known
GatesAfterEmbedding(h, S, embCandidate) ==
    LET sim == cosineSimilarity(h.embOriginal, embCandidate)
        h1 == [h EXCEPT !.similarity = sim]
        h2 == [h1 EXCEPT !.gates = Append(@, "properNoun")]
        h3 == [h2 EXCEPT !.gates = Append(@, "idiom")]
        h4 == [h3 EXCEPT !.gates = Append(@, "negation")]
        negationResult == checkNegation(engine, h.sentence, h.original)
        h5 == [h4 EXCEPT !.expanded = negationResult.expanded]
        h6 == [h5 EXCEPT !.gates = Append(@, "context")]
    IN  IF sim < EMBEDDING_MIN
        THEN FinishPS(h1, S, Result(h, FALSE, "NOT_SIMILAR_ENOUGH", "similarity", sim, 0, 0))
        ELSE IF sim > EMBEDDING_MAX
        THEN FinishPS(h1, S, Result(h, FALSE, "TOO_SIMILAR", "similarity", sim, 0, 0))
        ELSE IF checkProperNoun(engine, h.sentence, h.original)
        THEN FinishPS(h2, S, Result(h, FALSE, "PROPER_NOUN", "similarity", sim, 0, 0))
        ELSE IF checkIdiom(h.sentence, h.original)
        THEN FinishPS(h3, S, Result(h, FALSE, "IDIOM_DETECTED", "similarity", sim, 0, 0))
        ELSE IF negationResult.isNegated
        THEN FinishPS(h4, S, Result(h, FALSE, "NEGATION_CONTEXT", "similarity", sim, 0, 0))
        ELSE IF engine = "offscreen" THEN Goto(h5, S, "ps_mask")
        \* the AI worker: getContextVector(sentence, expanded)
        ELSE IF ~S.modelLoaded \/ ~S.extractor
        THEN FinishPS(h6, S, Result(h, FALSE, "NOT_IN_VOCAB", "similarity", sim, 0, 0))
        ELSE Call(h6, S, "sentence", h.sentence, "wait_ctx")

\* the semantic score of a candidate that reached scoring
SemanticScore(S, h) ==
    IF engine = "offscreen"
    THEN IF h.similarity >= EMBEDDING_TRUST_THRESHOLD THEN h.similarity
         ELSE h.similarity \div 2
    ELSE LET key == toLowerCase(h.candidate)
             cachedVectors == Lookup(S.contextCache, key)
             fromContext ==
                 IF Len(cachedVectors) > 0
                 THEN Max({cosineSimilarity(h.ctxVec, cachedVectors[i]) :
                              i \in 1..Len(cachedVectors)})
                 ELSE 0
         IN  IF h.similarity >= EMBEDDING_TRUST_THRESHOLD /\ h.similarity > fromContext
             THEN h.similarity ELSE fromContext

\* FINAL VERDICT: passed and, in the AI worker, the reason
Verdict(syntaxScore, semanticScore) ==
    IF syntaxScore > SYNTAX_FLOOR
    THEN IF semanticScore > SEMANTIC_FLOOR
         THEN [passed |-> TRUE, reason |-> "PASSED"]
         ELSE [passed |-> FALSE, reason |-> "SEMANTIC_FAILED"]
    ELSE IF semanticScore > SEMANTIC_OVERRIDE
         THEN [passed |-> TRUE, reason |-> "PASSED"]
         ELSE [passed |-> FALSE, reason |-> "SYNTAX_FAILED"]

\* processSubstitution without its readiness check
StartPSUnguarded(h, S) ==
    LET h0 == [h EXCEPT !.gates = <<"ready">>, !.calls = <<>>, !.masked = <<>>]
        h1 == [h0 EXCEPT !.gates = Append(@, "antonym")]
    IN  IF h.original = UNDEFINED \/ h.candidate = UNDEFINED THEN Threw(h1, S)
        ELSE IF isAntonym(h.original, h.candidate)
        THEN FinishPS(h1, S, Result(h, FALSE, "ANTONYM_DETECTED", "early", 0, 0, 0))
        ELSE Goto([h1 EXCEPT !.gates = Append(@, "similarity"),
                             !.geWord = h.original, !.geRet = "ps_embO"], S, "ge")

\* processSubstitution from its start to the first embedding
StartPS(h, S) ==
    LET h0 == [h EXCEPT !.gates = <<"ready">>, !.calls = <<>>, !.masked = <<>>]
        h1 == [h0 EXCEPT !.gates = Append(@, "antonym")]
    IN  IF ~S.modelLoaded
        THEN FinishPS(h0, S, Result(h, FALSE, "MODEL_NOT_READY", "early", 0, 0, 0))
        \* word1.toLowerCase() of an undefined word is a TypeError
        ELSE IF h.original = UNDEFINED \/ h.candidate = UNDEFINED THEN Threw(h1, S)
        ELSE IF isAntonym(h.original, h.candidate)
        THEN FinishPS(h1, S, Result(h, FALSE, "ANTONYM_DETECTED", "early", 0, 0, 0))
        ELSE Goto([h1 EXCEPT !.gates = Append(@, "similarity"),
                             !.geWord = h.original, !.geRet = "ps_embO"], S, "ge")

\* getEmbedding returning null for a word it finds in the cache
getEmbeddingForgetful(h, S) ==
    LET lower == toLowerCase(h.geWord)
    IN  IF h.geWord = UNDEFINED THEN Threw(h, S)
        ELSE IF lower \in DOMAIN S.embeddingCache
        THEN Goto([h EXCEPT !.geVal = NULLVEC], S, h.geRet)
        ELSE IF ~S.modelLoaded \/ ~S.extractor
        THEN Goto([h EXCEPT !.geVal = NULLVEC], S, h.geRet)
        ELSE Call(h, S, "embed", h.geWord, "wait_ge")

\* getEmbedding up to the provider call
getEmbedding(h, S) ==
    LET lower == toLowerCase(h.geWord)
    IN  IF h.geWord = UNDEFINED THEN Threw(h, S)
        ELSE IF lower \in DOMAIN S.embeddingCache
        THEN Goto([h EXCEPT !.geVal = S.embeddingCache[lower]], S, h.geRet)
        ELSE IF ~S.modelLoaded \/ ~S.extractor
        THEN Goto([h EXCEPT !.geVal = NULLVEC], S, h.geRet)
        ELSE Call(h, S, "embed", h.geWord, "wait_ge")

\* the masked sentence and scoreSyntax up to the provider call
MaskAndScore(h, S) ==
    LET maskedSentence == replaceWord(h.sentence, h.expanded, MASK)
        h1 == [h EXCEPT !.gates = Append(@, "scoring")]
    IN  IF ~S.modelLoaded \/ ~S.fillMask
        THEN Goto([h1 EXCEPT !.syntaxScore = SYNTAX_MISSING], S, "ps_verdict")
        ELSE Call([h1 EXCEPT !.masked = Append(@, maskedSentence)], S, "mask",
                  maskedSentence, "wait_mask")

FinalVerdict(h, S) ==
    LET semanticScore == SemanticScore(S, h)
        v == Verdict(h.syntaxScore, semanticScore)
    IN  FinishPS(h, S, Result(h, v.passed, v.reason, "final", h.similarity,
                              h.syntaxScore, semanticScore))

----------------------------------------------------------------------------
(* findBestSubstitution and processText                                    *)

\* the sort with the later of two equal scores put first
InsertDescLastWins(sorted, x) ==
    LET k == Cardinality({i \in 1..Len(sorted) : sorted[i].syntaxScore > x.syntaxScore})
    IN  SubSeq(sorted, 1, k) \o <<x>> \o SubSeq(sorted, k + 1, Len(sorted))

\* results.sort((a, b) => b.syntaxScore - a.syntaxScore): a stable sort
InsertDesc(sorted, x) ==
    LET k == Cardinality({i \in 1..Len(sorted) : sorted[i].syntaxScore >= x.syntaxScore})
    IN  SubSeq(sorted, 1, k) \o <<x>> \o SubSeq(sorted, k + 1, Len(sorted))

RECURSIVE SortDesc(_)
SortDesc(q) ==
    IF q = <<>> THEN <<>>
    ELSE InsertDesc(SortDesc(SubSeq(q, 1, Len(q) - 1)), q[Len(q)])

\* what findBestSubstitution returns: to the message handler or to processText
FBReturn(h, S, val) ==
    IF h.type = "findBestSubstitution" THEN Done(h, S, val)
    ELSE Goto([h EXCEPT !.fbResult = val], S, "pt_after_fb")

\* findBestSubstitution with the custom candidates put before the built-in
StartFBCustomFirst(h, S) ==
    LET lower == toLowerCase(h.word)
        builtin == Lookup(GREVocabularyDatabase, lower)
        candidates == IF lower \in DOMAIN S.customVocabulary
                      THEN S.customVocabulary[lower] \o builtin ELSE builtin
        h1 == [h EXCEPT !.candidates = candidates, !.ci = 1, !.results = <<>>,
                        !.fbLog = Append(@, lower),
                        !.vocabLog = Append(@, S.customVocabulary)]
    IN  IF h.word = UNDEFINED THEN Threw(h, S)
        ELSE IF NotIterable(GREVocabularyDatabase, lower) THEN Threw(h1, S)
        ELSE IF Len(candidates) = 0 THEN FBReturn(h1, S, NullResult)
        ELSE Goto(h1, S, "fb_loop")

\* findBestSubstitution: the candidates of the key, built-in ones first
StartFB(h, S) ==
    LET lower == toLowerCase(h.word)
        builtin == Lookup(GREVocabularyDatabase, lower)
        candidates == IF lower \in DOMAIN S.customVocabulary
                      THEN builtin \o S.customVocabulary[lower] ELSE builtin
        h1 == [h EXCEPT !.candidates = candidates, !.ci = 1, !.results = <<>>,
                        !.fbLog = Append(@, lower),
                        !.vocabLog = Append(@, S.customVocabulary)]
    IN  IF h.word = UNDEFINED THEN Threw(h, S)
        ELSE IF NotIterable(GREVocabularyDatabase, lower) THEN Threw(h1, S)
        ELSE IF Len(candidates) = 0 THEN FBReturn(h1, S, NullResult)
        ELSE Goto(h1, S, "fb_loop")

\* for (const candidate of candidates) ... and the selection after the loop
LoopFB(h, S) ==
    IF h.ci <= Len(h.candidates)
    THEN Goto([h EXCEPT !.original = h.word,
                        !.candidate = h.candidates[h.ci].word], S, "ps_start")
    ELSE IF h.results = <<>> THEN FBReturn(h, S, NullResult)
    ELSE FBReturn(h, S, SortDesc(h.results)[1])

\* Math.ceil(n * d) for the density d = num / den
Ceil(n, d) == (n * d.num + d.den - 1) \div d.den

\* the default parameter maxDensity = CONFIG.MAX_DENSITY; den = 0 stands for
\* a request without maxDensity
DensityOf(d) == IF d.den = 0 THEN MAX_DENSITY ELSE d

StartPT(h, S) ==
    LET words == splitWhitespace(h.text)
        maxSubs == Max({1, Ceil(Len(words), DensityOf(h.args.maxDensity))})
    IN  Goto([h EXCEPT !.wordsToProcess = sliceFirst(words, MAX_WORDS_PER_BATCH),
                       !.maxSubs = maxSubs, !.wi = 1, !.allResults = <<>>,
                       !.processedWords = {}], S, "pt_loop")

\* the substitutions loop of processText: [modifiedText, substitutions]
RECURSIVE ApplySubs(_, _, _)
ApplySubs(modifiedText, substitutions, selectedSubs) ==
    IF selectedSubs = <<>>
    THEN [modifiedText |-> modifiedText, substitutions |-> substitutions]
    ELSE LET sub == Head(selectedSubs)
             newText == replaceWord(modifiedText, sub.original, sub.candidate)
             made == [original |-> sub.original, replacement |-> sub.candidate,
                      similarity |-> sub.similarity,
                      syntaxScore |-> sub.syntaxScore,
                      semanticScore |-> sub.semanticScore,
                      fields |-> IF engine = "worker"
                                 THEN {"original", "replacement", "similarity",
                                       "syntaxScore", "semanticScore"}
                                 ELSE {"original", "replacement", "similarity",
                                       "syntaxScore"}]
         IN  IF newText # modifiedText
             THEN ApplySubs(newText, Append(substitutions, made), Tail(selectedSubs))
             ELSE ApplySubs(modifiedText, substitutions, Tail(selectedSubs))

\* the end of processText: sort, take the top maxSubs, rewrite
FinishPT(h, S) ==
    LET sorted == SortDesc(h.allResults)
        selectedSubs == sliceFirst(sorted, h.maxSubs)
        applied == ApplySubs(h.text, <<>>, selectedSubs)
    IN  Done(h, S, [originalText |-> h.text,
                    modifiedText |-> applied.modifiedText,
                    substitutions |-> applied.substitutions,
                    substitutionsMade |-> Len(applied.substitutions),
                    substitutionsAttempted |-> Len(h.allResults)])

\* for (const word of wordsToProcess) up to the call of findBestSubstitution
LoopPT(h, S) ==
    IF h.wi > Len(h.wordsToProcess) THEN FinishPT(h, S)
    ELSE LET clean == stripPunctuation(toLowerCase(h.wordsToProcess[h.wi]))
         IN  IF clean \in h.processedWords \/ Len(clean) < 2
             THEN Goto([h EXCEPT !.wi = @ + 1], S, "pt_loop")
             ELSE IF Truthy(GREVocabularyDatabase, clean)
                     \/ clean \in DOMAIN S.customVocabulary
             THEN Goto([h EXCEPT !.clean = clean, !.sentence = h.text,
                                 !.word = clean], S, "fb_start")
             ELSE Goto([h EXCEPT !.wi = @ + 1], S, "pt_loop")

\* if (result) { allResults.push(result); processedWords.add(clean); }
AfterFB(h, S) ==
    IF IsNull(h.fbResult) THEN Goto([h EXCEPT !.wi = @ + 1], S, "pt_loop")
    ELSE Goto([h EXCEPT !.allResults = Append(@, h.fbResult),
                        !.processedWords = @ \cup {h.clean},
                        !.wi = @ + 1], S, "pt_loop")

----------------------------------------------------------------------------
(* Custom vocabulary, model loading, the AI worker's pre-computation       *)

\* for (const entry of vocabulary): set/push, then getEmbedding(synonym)
LoopACV(h, S) ==
    LET vocabulary == h.args.vocabulary
    IN  IF ~h.args.isArray
        THEN IF engine = "offscreen"
             THEN Done(h, S, [error |-> "Invalid vocabulary data: expected array"])
             ELSE Threw(h, S)
        ELSE IF h.vi > Len(vocabulary)
        THEN Done(h, S, [success |-> TRUE, count |-> Len(vocabulary)])
        ELSE LET entry == vocabulary[h.vi]
                 lower == toLowerCase(entry.word)
                 pushed == Append(Lookup(S.customVocabulary, lower),
                                  Candidate(entry.synonym, 0))
             IN  IF entry.word = UNDEFINED THEN Threw(h, S)
                 ELSE Goto([h EXCEPT !.geWord = entry.synonym, !.geRet = "acv_next"],
                           [S EXCEPT !.customVocabulary = (lower :> pushed) @@ @],
                           "ge")

\* clearCustomVocabulary leaving the map as it is
clearCustomVocabularyKeeps(h, S) == Done(h, S, [success |-> TRUE])

\* clearCustomVocabulary clearing the embedding cache too
clearCustomVocabularyAndCache(h, S) ==
    Done(h, [S EXCEPT !.customVocabulary = EmptyMap, !.embeddingCache = EmptyMap],
         [success |-> TRUE])

clearCustomVocabulary(h, S) ==
    Done(h, [S EXCEPT !.customVocabulary = EmptyMap], [success |-> TRUE])

\* Object.entries(GREVocabularyDatabase): the keys in the order of data.js
GREKeys == <<W_hot, W_big, W_new>>

RECURSIVE SetToSeq(_)
SetToSeq(T) ==
    IF T = {} THEN <<>>
    ELSE LET x == CHOOSE y \in T : TRUE IN <<x>> \o SetToSeq(T \ {x})

\* the key followed by the words of its candidates, for each key
RECURSIVE WordsOf(_, _)
WordsOf(table, keys) ==
    IF keys = <<>> THEN <<>>
    ELSE <<Head(keys)>>
         \o [i \in 1..Len(table[Head(keys)]) |-> table[Head(keys)][i].word]
         \o WordsOf(table, Tail(keys))

\* new Set(): each word once, in the order of its first insertion
RECURSIVE Distinct(_)
Distinct(q) ==
    IF q = <<>> THEN <<>>
    ELSE LET rest == Distinct(SubSeq(q, 1, Len(q) - 1))
         IN  IF \E i \in 1..Len(rest) : rest[i] = q[Len(q)] THEN rest
             ELSE Append(rest, q[Len(q)])

\* the candidates of all built-in entries, in order
RECURSIVE CandidatesOf(_)
CandidatesOf(keys) ==
    IF keys = <<>> THEN <<>>
    ELSE GREVocabularyDatabase[Head(keys)] \o CandidatesOf(Tail(keys))

\* what follows loadModel() in the handler of the request
AfterLM(h, S) ==
    IF h.type = "init" /\ engine = "worker" THEN Goto(h, S, "pv_start")
    ELSE Done(h, S, [success |-> TRUE])

\* loadModel without the test of modelLoaded and modelLoading
loadModelUnguarded(h, S) ==
    [h |-> [h EXCEPT !.pc = "wait_p1",
                     !.pending = [kind |-> "load", arg |-> <<>>]],
     S |-> [S EXCEPT !.modelLoading = TRUE]]

\* loadModel up to the first pipeline()
loadModel(h, S) ==
    IF S.modelLoaded \/ S.modelLoading THEN AfterLM(h, S)
    ELSE [h |-> [h EXCEPT !.pc = "wait_p1",
                          !.pending = [kind |-> "load", arg |-> <<>>]],
          S |-> [S EXCEPT !.modelLoading = TRUE]]

\* precomputeVocabulary up to its loop
precomputeVocabulary(h, S) ==
    IF ~S.modelLoaded THEN Done(h, S, [success |-> TRUE])
    ELSE LET allWords ==
                 Distinct(WordsOf(GREVocabularyDatabase, GREKeys)
                          \o WordsOf(S.customVocabulary,
                                     SetToSeq(DOMAIN S.customVocabulary)))
         IN  Goto([h EXCEPT !.pvWords = allWords, !.pvi = 1], S, "pv_loop")

\* for (const word of allWords), then precomputeContextVectors
LoopPV(h, S) ==
    IF h.pvi > Len(h.pvWords)
    THEN Goto([h EXCEPT !.pcCands = CandidatesOf(GREKeys), !.pcj = 1], S, "pc_loop")
    ELSE LET word == h.pvWords[h.pvi]
         IN  IF word = UNDEFINED THEN Threw(h, S)
             ELSE IF toLowerCase(word) \in DOMAIN S.embeddingCache
             THEN Goto([h EXCEPT !.pvi = @ + 1], S, "pv_loop")
             ELSE Goto([h EXCEPT !.geWord = word, !.geRet = "pv_next"], S, "ge")

\* for (const candidate of candidates) of precomputeContextVectors
LoopPC(h, S) ==
    IF h.pcj > Len(h.pcCands) THEN Done(h, S, [success |-> TRUE])
    ELSE IF toLowerCase(h.pcCands[h.pcj].word) \in DOMAIN S.contextCache
    THEN Goto([h EXCEPT !.pcj = @ + 1], S, "pc_loop")
    ELSE Goto([h EXCEPT !.pck = 1, !.pcVecs = <<>>], S, "pc_ex")

\* for (const example of candidate.examples.slice(0, 3))
ExamplesPC(h, S) ==
    LET candidate == h.pcCands[h.pcj]
        key == toLowerCase(candidate.word)
    IN  IF h.pck > Min({3, candidate.examples})
        THEN Goto([h EXCEPT !.pcj = @ + 1],
                  IF Len(h.pcVecs) > 0
                  THEN [S EXCEPT !.contextCache = (key :> h.pcVecs) @@ @]
                  ELSE S,
                  "pc_loop")
        ELSE IF ~S.modelLoaded \/ ~S.extractor
        THEN Goto([h EXCEPT !.pck = @ + 1], S, "pc_ex")
        ELSE Call(h, S, "example", Example(candidate.word), "wait_pcx")

----------------------------------------------------------------------------
(* The handlers as step machines                                           *)

\* one segment of a handler that is not suspended: the code from one await
\* of a callee to the next
Step(h, S) ==
    CASE h.pc = "ps_start" -> StartPS(h, S)
      [] h.pc = "ge" -> getEmbedding(h, S)
      [] h.pc = "ps_embO" ->
            Goto([h EXCEPT !.embOriginal = h.geVal, !.geWord = h.candidate,
                           !.geRet = "ps_embC"], S, "ge")
      [] h.pc = "ps_embC" -> GatesAfterEmbedding(h, S, h.geVal)
      [] h.pc = "ps_mask" -> MaskAndScore(h, S)
      [] h.pc = "ps_verdict" -> FinalVerdict(h, S)
      [] h.pc = "fb_start" -> StartFB(h, S)
      [] h.pc = "fb_loop" -> LoopFB(h, S)
      [] h.pc = "pt_start" -> StartPT(h, S)
      [] h.pc = "pt_loop" -> LoopPT(h, S)
      [] h.pc = "pt_after_fb" -> AfterFB(h, S)
      [] h.pc = "acv_loop" -> LoopACV(h, S)
      [] h.pc = "acv_next" -> Goto([h EXCEPT !.vi = @ + 1], S, "acv_loop")
      [] h.pc = "ccv" -> clearCustomVocabulary(h, S)
      [] h.pc = "lm_start" -> loadModel(h, S)
      [] h.pc = "default" -> Done(h, S, [error |-> "Unknown type"])
      [] h.pc = "pv_start" -> precomputeVocabulary(h, S)
      [] h.pc = "pv_loop" -> LoopPV(h, S)
      [] h.pc = "pv_next" -> Goto([h EXCEPT !.pvi = @ + 1], S, "pv_loop")
      [] h.pc = "pc_loop" -> LoopPC(h, S)
      [] h.pc = "pc_ex" -> ExamplesPC(h, S)

NoCall == [kind |-> "none", arg |-> <<>>]

\* getEmbedding caching null for a word on which the extractor threw
getEmbeddingCachesNull(h, S) ==
    LET h0 == [h EXCEPT !.pending = NoCall]
        arg == h.pending.arg
        answer == ExtractorAnswer("word", arg)
    IN  Goto([h0 EXCEPT !.geVal = answer,
                        !.embedded = IF answer = NULLVEC THEN @
                                     ELSE Append(@, toLowerCase(arg))],
             [S EXCEPT !.embeddingCache = (toLowerCase(arg) :> answer) @@ @],
             h.geRet)

\* getEmbedding after await State.extractor(word, ...): the vector is cached
\* under the lowercased word and returned, or the catch returns null
getEmbeddingAnswered(h, S) ==
    LET h0 == [h EXCEPT !.pending = NoCall]
        arg == h.pending.arg
        answer == ExtractorAnswer("word", arg)
    IN  IF answer = NULLVEC
        THEN Goto([h0 EXCEPT !.geVal = NULLVEC], S, h.geRet)
        ELSE Goto([h0 EXCEPT !.geVal = answer,
                             !.embedded = Append(@, toLowerCase(arg))],
                  [S EXCEPT !.embeddingCache = (toLowerCase(arg) :> answer) @@ @],
                  h.geRet)

\* the provider call the handler is suspended on settles; ok says whether a
\* pipeline() load succeeded
Resume(h, S, ok) ==
    LET h0 == [h EXCEPT !.pending = NoCall]
        arg == h.pending.arg
    IN  CASE h.pc = "wait_ge" -> getEmbeddingAnswered(h, S)
          [] h.pc = "wait_ctx" ->
                LET answer == ExtractorAnswer("sentence", arg)
                IN  IF answer = NULLVEC
                    THEN FinishPS(h0, S, Result(h, FALSE, "NOT_IN_VOCAB", "similarity",
                                                h.similarity, 0, 0))
                    ELSE Goto([h0 EXCEPT !.ctxVec = answer], S, "ps_mask")
          [] h.pc = "wait_mask" ->
                Goto([h0 EXCEPT !.syntaxScore =
                                    SyntaxFromAnswer(FillMaskAnswer(arg), h.candidate)],
                     S, "ps_verdict")
          [] h.pc = "wait_pcx" ->
                LET answer == ExtractorAnswer("example", arg)
                IN  Goto([h0 EXCEPT !.pck = @ + 1,
                                    !.pcVecs = IF answer = NULLVEC THEN @
                                               ELSE Append(@, answer)], S, "pc_ex")
          [] h.pc = "wait_p1" ->
                IF ok
                THEN [h |-> [h EXCEPT !.pc = "wait_p2"],
                      S |-> [S EXCEPT !.extractor = TRUE]]
                ELSE Threw(h0, [S EXCEPT !.modelLoading = FALSE])
          [] h.pc = "wait_p2" ->
                IF ok
                THEN AfterLM(h0, [S EXCEPT !.fillMask = TRUE, !.modelLoaded = TRUE,
                                           !.modelLoading = FALSE])
                ELSE Threw(h0, [S EXCEPT !.modelLoading = FALSE])

\* a handler runs until it is suspended on the provider or has answered
RECURSIVE RunFrom(_)
RunFrom(r) ==
    IF r.h.pc \in WaitingPcs \cup {"done"} THEN r
    ELSE CHOOSE q \in {RunFrom(n) : n \in {Step(r.h, r.S)}} : TRUE

Run(h, S) == CHOOSE q \in {RunFrom(n) : n \in {[h |-> h, S |-> S]}} : TRUE

\* the handler's provider call settles, if it waits for one, and the handler
\* runs on to its next provider call or to its answer
Advance(r, ok) ==
    IF r.h.pc = "done" THEN r
    ELSE IF r.h.pc \in WaitingPcs
    THEN CHOOSE q \in {RunFrom(n) : n \in {Resume(r.h, r.S, ok)}} : TRUE
    ELSE RunFrom(r)

\* Advance 2^k times
RECURSIVE AdvanceTimes(_, _, _)
AdvanceTimes(r, ok, k) ==
    IF k = 0 THEN Advance(r, ok)
    ELSE CHOOSE q \in {AdvanceTimes(n, ok, k - 1) : n \in {AdvanceTimes(r, ok, k - 1)}} : TRUE

\* a handler runs to its answer with no other handler in between; no handler
\* of the model makes more than 64 provider calls
Complete(h, S, ok) ==
    CHOOSE q \in {AdvanceTimes(n, ok, 6) : n \in {[h |-> h, S |-> S]}} : TRUE

----------------------------------------------------------------------------
(* Requests, answers and the engine as a whole                             *)

\* texts and words the requests of the model carry
T_hot_big == <<"h","o","t"," ","b","i","g">>
T_padded == <<" ","h","o","t"," ","b","i","g"," ">>
T_hot_hot == <<"h","o","t"," ","h","o","t">>
S_hot_tea == <<"h","o","t"," ","t","e","a">>
S_not_hot == <<"n","o","t"," ","h","o","t">>
S_hot_dog == <<"a"," ","h","o","t"," ","d","o","g">>
S_Hot_Springs == <<"H","o","t"," ","S","p","r","i","n","g","s">>
W_Cold == <<"C","o","l","d">>
W_HOT == <<"H","O","T">>

\* the data of a request; a request type reads the fields it knows
Args(text, maxDensity, sentence, word, original, candidate, isArray, vocabulary) ==
    [text |-> text, maxDensity |-> maxDensity, sentence |-> sentence,
     word |-> word, original |-> original, candidate |-> candidate,
     isArray |-> isArray, vocabulary |-> vocabulary]

NoDensity == [num |-> 0, den |-> 0]
NoArgs == Args(<<>>, NoDensity, <<>>, <<>>, <<>>, <<>>, FALSE, <<>>)
PTArgs(text, maxDensity) == [NoArgs EXCEPT !.text = text, !.maxDensity = maxDensity]
FBArgs(sentence, word) == [NoArgs EXCEPT !.sentence = sentence, !.word = word]
PSArgs(sentence, original, candidate) ==
    [NoArgs EXCEPT !.sentence = sentence, !.original = original,
                   !.candidate = candidate]
ACVArgs(vocabulary) == [NoArgs EXCEPT !.isArray = TRUE, !.vocabulary = vocabulary]
Entry(word, synonym) == [word |-> word, synonym |-> synonym]

\* a provider: the similarity of each word to its key, the log score of each
\* predicted token, the context similarity of each candidate's examples, and
\* the texts on which the extractor throws
World(sim, fill, ctx, throws) ==
    [sim |-> sim, fill |-> fill, ctx |-> ctx, throws |-> throws]

AllCandidates == {W_scalding, W_torrid, W_enormous, W_novel, W_cold, W_warm, W_small}

\* every candidate is similar and predicted; torrid fits the sentence better
\* than scalding, the antonym cold fits best of all
WorldGood ==
    World((W_scalding :> 800) @@ (W_torrid :> 700) @@ (W_enormous :> 850) @@
          (W_novel :> 900) @@ (W_cold :> 820) @@ (W_warm :> 650) @@ (W_small :> 700),
          (W_scalding :> -2000) @@ (W_torrid :> -1500) @@ (W_enormous :> -2500) @@
          (W_novel :> -3000) @@ (W_cold :> -500) @@ (W_warm :> -4000) @@
          (W_small :> -1000),
          [c \in AllCandidates |-> 600], {})

\* no candidate is similar enough to its key
WorldNone ==
    World([c \in AllCandidates |-> 300], [c \in AllCandidates |-> -2000],
          [c \in AllCandidates |-> 600], {})

\* WorldGood with an extractor that throws on the word scalding
WorldThrows == World(WorldGood.sim, WorldGood.fill, WorldGood.ctx, {W_scalding})

\* the message sent back for a handler that has answered, with
\* State.modelLoaded at the time it is sent
Response(h, S) ==
    [id |-> h.id, type |-> h.type, args |-> h.args, kind |-> h.kind,
     result |-> h.result, start |-> h.start, psLog |-> h.psLog,
     fbLog |-> h.fbLog, vocabLog |-> h.vocabLog, embedded |-> h.embedded,
     loaded |-> S.modelLoaded]

\* the engine state and the handler after a segment has run
StoreEngine(r) ==
    /\ modelLoaded' = r.S.modelLoaded
    /\ modelLoading' = r.S.modelLoading
    /\ extractor' = r.S.extractor
    /\ fillMask' = r.S.fillMask
    /\ embeddingCache' = r.S.embeddingCache
    /\ contextCache' = r.S.contextCache
    /\ customVocabulary' = r.S.customVocabulary
    /\ IF r.h.pc = "done"
       THEN /\ responses' = Append(responses, Response(r.h, r.S))
            /\ handlers' = [i \in DOMAIN handlers \ {r.h.id} |-> handlers[i]]
       ELSE /\ handlers' = (r.h.id :> r.h) @@ handlers
            /\ UNCHANGED responses

\* a segment of the engine leaves the background and the page alone
Store(r) == StoreEngine(r) /\ UNCHANGED <<background, page>>

\* handleWorkerMessage(type, id, data) is entered
Begin(type, args) == [NewHandler(nextId + 1, type, args) EXCEPT !.start = EngineState]

\* the number of requests of a behaviour
MaxRequests == 3

\* a request is served from its arrival to its answer while no other request
\* is in flight
ServeUpTo(max, type, args, ok) ==
    /\ nextId < max
    /\ DOMAIN handlers = {}
    /\ nextId' = nextId + 1
    /\ Store(Complete(Begin(type, args), EngineState, ok))
    /\ UNCHANGED <<engine, world>>

Serve(type, args, ok) == ServeUpTo(MaxRequests, type, args, ok)

Texts == {T_padded, T_hot_hot}
Densities == {[num |-> 1, den |-> 2], [num |-> 1, den |-> 5]}
Batches == {<<Entry(W_hot, W_Cold)>>}

InitializeRequest == Serve("init", NoArgs, TRUE)
LoadModelRequest == Serve("loadModel", NoArgs, TRUE)
ProcessTextRequest ==
    \E text \in Texts, d \in Densities : Serve("processText", PTArgs(text, d), TRUE)
FindBestSubstitutionRequest ==
    Serve("findBestSubstitution", FBArgs(T_hot_big, W_hot), TRUE)
ProcessSubstitutionRequest ==
    \E pair \in {<<W_hot, W_Cold>>, <<W_Cold, W_HOT>>} :
        Serve("processSubstitution", PSArgs(S_hot_tea, pair[1], pair[2]), TRUE)
AddCustomVocabularyRequest ==
    \E batch \in Batches : Serve("addCustomVocabulary", ACVArgs(batch), TRUE)
ClearCustomVocabularyRequest == Serve("clearCustomVocabulary", NoArgs, TRUE)

\* ExtensionState of the background script as constructed, with the messages
\* on their way and the timers that are armed; arrived counts the messages of
\* the popup, the context menu and the content script, queue holds the
\* messages of the offscreen document in the order they were sent, waiting
\* the callers of initializeWorker that await their 'init', forwarded the
\* work sent to the engine with State.modelLoaded at the time it was sent,
\* heard the messages the listener of the offscreen document was called with
\* and what it replied
Background0 ==
    [requestId |-> 0, pendingRequests |-> {}, promises |-> EmptyMap,
     sent |-> {}, acks |-> {}, working |-> {}, inbox |-> {}, timers |-> {},
     handled |-> {}, tab |-> {},
     workerReady |-> FALSE, workerLoading |-> FALSE, arrived |-> 0,
     queue |-> <<>>, waiting |-> EmptyMap, forwarded |-> {}, heard |-> {}]

\* the content script before a page is processed
Page0 ==
    [mode |-> "none", before |-> <<>>, nodes |-> <<>>, replacements |-> EmptyMap,
     rendered |-> 0, sent |-> 0, reverted |-> 0]

\* the engine after its script has run: State as constructed, no request yet
InitState ==
    /\ modelLoaded = State0.modelLoaded
    /\ modelLoading = State0.modelLoading
    /\ extractor = State0.extractor
    /\ fillMask = State0.fillMask
    /\ embeddingCache = State0.embeddingCache
    /\ contextCache = State0.contextCache
    /\ customVocabulary = State0.customVocabulary
    /\ handlers = EmptyMap
    /\ responses = <<>>
    /\ nextId = 0
    /\ background = Background0
    /\ page = Page0

Init ==
    /\ engine \in {"offscreen", "worker"}
    /\ world \in {WorldGood, WorldNone, WorldThrows}
    /\ InitState

Next ==
    \/ InitializeRequest
    \/ LoadModelRequest
    \/ ProcessTextRequest
    \/ FindBestSubstitutionRequest
    \/ ProcessSubstitutionRequest
    \/ AddCustomVocabularyRequest
    \/ ClearCustomVocabularyRequest

Spec == Init /\ [][Next]_vars

----------------------------------------------------------------------------
(* Properties of processText, findBestSubstitution and the caches          *)

ResponsesOf(type) ==
    {i \in 1..Len(responses) : responses[i].type = type /\ responses[i].kind = "result"}

\* the whitespace-separated tokens of a text
Tokens(text) == SelectSeq(splitWhitespace(text), LAMBDA w : w # <<>>)

\* the unordered pair {w, c} is in AntonymPairs, in any letter case
AntonymPair(w, c) ==
    \E i \in 1..Len(AntonymPairs) :
        {toLowerCase(w), toLowerCase(c)} = {AntonymPairs[i][1], AntonymPairs[i][2]}

\* C1: processText returns substitutionsMade <= max(1, ceil(N * maxDensity)),
\* N the number of whitespace-separated tokens of the text, for every text,
\* vocabulary, provider and density.
C1_DensityBound ==
    \A i \in ResponsesOf("processText") :
        responses[i].result.substitutionsMade
            <= Max({1, Ceil(Len(Tokens(responses[i].args.text)),
                            DensityOf(responses[i].args.maxDensity))})

\* all processSubstitution runs of the behaviour, inside the selectors too
AllPS ==
    UNION {{<<i, j>> : j \in 1..Len(responses[i].psLog)} : i \in 1..Len(responses)}

\* C3: with the provider available, a pair of AntonymPairs (either order, any
\* letter case) is answered passed = false, ANTONYM_DETECTED, whatever the
\* similarity; no antonym is chosen by findBestSubstitution or written by
\* processText.
C3_AntonymNeverSubstituted ==
    /\ \A p \in AllPS :
         LET r == responses[p[1]]
             e == r.psLog[p[2]].result
         IN  (r.start.modelLoaded /\ AntonymPair(e.original, e.candidate))
                => (~e.passed /\ e.reason = "ANTONYM_DETECTED")
    /\ \A i \in ResponsesOf("findBestSubstitution") :
         LET r == responses[i].result
         IN  ~IsNull(r) => ~AntonymPair(r.original, r.candidate)
    /\ \A i \in ResponsesOf("processText") :
         \A k \in 1..Len(responses[i].result.substitutions) :
            LET sub == responses[i].result.substitutions[k]
            IN  ~AntonymPair(sub.original, sub.replacement)

\* a document pass met the custom antonym Cold of hot, rejected it, and
\* rewrote the text with another candidate
C3_Witness ==
    \E i \in ResponsesOf("processText") :
        /\ responses[i].start.modelLoaded
        /\ \E j \in 1..Len(responses[i].psLog) :
              /\ responses[i].psLog[j].result.candidate = W_Cold
              /\ responses[i].psLog[j].result.reason = "ANTONYM_DETECTED"
        /\ responses[i].result.substitutionsMade >= 1

\* C7: in one processText pass findBestSubstitution runs at most once for
\* each lookup key, whether its first evaluation found a winner or none.
C7_NoReevaluation ==
    \A i \in 1..Len(responses) :
        responses[i].type = "processText" =>
            \A a, b \in 1..Len(responses[i].fbLog) :
                responses[i].fbLog[a] = responses[i].fbLog[b] => a = b

\* the two requests met the same provider
SameProvider(a, b) ==
    /\ a.start.modelLoaded = b.start.modelLoaded
    /\ a.start.extractor = b.start.extractor
    /\ a.start.fillMask = b.start.fillMask

\* the map after extends the map before
Extends(after, before) ==
    /\ DOMAIN before \subseteq DOMAIN after
    /\ \A k \in DOMAIN before : after[k] = before[k]

\* a processText request is answered in this step
AnswersProcessText ==
    /\ Len(responses') = Len(responses) + 1
    /\ responses'[Len(responses')].type = "processText"

C8_SameOutcome ==
    \A i, j \in ResponsesOf("processText") :
        LET a == responses[i]
            b == responses[j]
        IN  (/\ a.args = b.args
             /\ a.start.customVocabulary = b.start.customVocabulary
             /\ SameProvider(a, b))
            => /\ a.result.modifiedText = b.result.modifiedText
               /\ a.result.substitutions = b.result.substitutions

C8_OnlyCachesGrow ==
    AnswersProcessText =>
        /\ UNCHANGED <<modelLoaded, modelLoading, extractor, fillMask,
                       contextCache, customVocabulary>>
        /\ Extends(embeddingCache', embeddingCache)

----------------------------------------------------------------------------
(* processSubstitution over a grid of provider answers                     *)

\* the number of requests of a behaviour of SpecPS
MaxRequestsPS == 2

SimValues == {550, 850}
CtxValues == {100, 500, 800}
\* the log scores of the candidate; the empty map when it is not predicted
FillValues ==
    {EmptyMap} \cup {(W_scalding :> f) @@ (W_cold :> f) : f \in {-6000, -4000, -2000}}

\* the answers that take a candidate to scoring, one below and one above
\* the similarity range, and one provider that throws on a sentence
WorldsPS ==
    {World((W_scalding :> s) @@ (W_cold :> s), f,
           (W_scalding :> c) @@ (W_cold :> c), {}) :
        s \in SimValues, f \in FillValues, c \in CtxValues}
    \cup {World((W_scalding :> s) @@ (W_cold :> s), WorldGood.fill,
                WorldGood.ctx, {}) : s \in {400, 995}}
    \cup {World(WorldGood.sim, WorldGood.fill, WorldGood.ctx, {S_hot_tea})}

W_Scalding == <<"S","c","a","l","d","i","n","g">>
S_iced_tea == <<"i","c","e","d"," ","t","e","a">>

\* the last sentence holds no occurrence of the word: nothing is masked
SentencesPS == {S_hot_tea, S_not_hot, S_hot_dog, S_Hot_Springs, S_iced_tea}

InitializePS == ServeUpTo(MaxRequestsPS, "init", NoArgs, TRUE)

ProcessSubstitutionPS ==
    \E sentence \in SentencesPS, candidate \in {W_scalding, W_Scalding, W_cold} :
        ServeUpTo(MaxRequestsPS, "processSubstitution",
                  PSArgs(sentence, W_hot, candidate), TRUE)

\* the offscreen engine never asks for a context similarity: one value of
\* it is enough there
InitPS ==
    /\ engine \in {"offscreen", "worker"}
    /\ world \in WorldsPS
    /\ engine = "offscreen" => \A c \in DOMAIN world.ctx : world.ctx[c] >= 500
    /\ InitState

NextPS == InitializePS \/ ProcessSubstitutionPS

SpecPS == InitPS /\ [][NextPS]_vars

\* the gates of the Decision Policy in the order of the specification
GateOrder ==
    <<"ready", "antonym", "similarity", "properNoun", "idiom", "negation", "scoring">>

\* the reasons with which a gate fails
ReasonsOf(gate) ==
    CASE gate = "ready" -> {"MODEL_NOT_READY"}
      [] gate = "antonym" -> {"ANTONYM_DETECTED"}
      [] gate = "similarity" -> {"NOT_SIMILAR_ENOUGH", "TOO_SIMILAR"}
      [] gate = "properNoun" -> {"PROPER_NOUN"}
      [] gate = "idiom" -> {"IDIOM_DETECTED"}
      [] gate = "negation" -> {"NEGATION_CONTEXT"}
      [] gate = "scoring" -> {"SYNTAX_FAILED", "SEMANTIC_FAILED"}
      [] OTHER -> {}

\* the gates of the specification among those a run evaluated
ListedGates(gates) == SelectSeq(gates, LAMBDA g : g \in {GateOrder[k] : k \in 1..7})

\* C2: processSubstitution evaluates the gates in the order ready, antonym,
\* similarity range, proper noun, idiom, negation, scoring; the reason it
\* returns is that of the earliest failing gate; after a failing gate no later
\* gate is evaluated and no further provider call is made.
C2_OrderedShortCircuit ==
    \A p \in AllPS :
        LET e == responses[p[1]].psLog[p[2]]
            n == Len(e.gates)
            last == e.gates[n]
            listed == ListedGates(e.gates)
        IN  /\ listed = SubSeq(GateOrder, 1, Len(listed))
            /\ ~e.result.passed => e.result.reason \in ReasonsOf(last)
            /\ e.result.passed => last = "scoring"
            /\ last \in {"ready", "antonym"} => e.calls = <<>>
            /\ last # "scoring" => \A k \in 1..Len(e.calls) : e.calls[k] = "embed"

\* the runs of processSubstitution that reached scoring
Scored == {p \in AllPS : LET g == responses[p[1]].psLog[p[2]].gates
                         IN  g[Len(g)] = "scoring"}

\* C4: a candidate that reaches scoring passes exactly when (syntaxScore >
\* SYNTAX_FLOOR and semanticScore > SEMANTIC_FLOOR) or (syntaxScore <=
\* SYNTAX_FLOOR and semanticScore > SEMANTIC_OVERRIDE); failing in the first
\* branch gives SEMANTIC_FAILED, in the second SYNTAX_FAILED; the comparisons
\* are strict.
C4_ScoreCombination ==
    \A p \in Scored :
        LET e == responses[p[1]].psLog[p[2]].result
            first == e.syntaxScore > SYNTAX_FLOOR
        IN  /\ e.passed <=> \/ first /\ e.semanticScore > SEMANTIC_FLOOR
                            \/ ~first /\ e.semanticScore > SEMANTIC_OVERRIDE
            /\ (~e.passed /\ first) => e.reason = "SEMANTIC_FAILED"
            /\ (~e.passed /\ ~first) => e.reason = "SYNTAX_FAILED"

\* C5: with the CONFIG of data.js the thresholds are -3.5, 0.45 and 0.80: a
\* candidate reaching scoring passes exactly as these thresholds say, so that
\* (-2, 0.50) passes, (-4, 0.85) passes via the override and (-4, 0.5) fails.
C5_LoadedThresholds ==
    \A p \in Scored :
        LET e == responses[p[1]].psLog[p[2]].result
        IN  /\ e.passed <=> \/ e.syntaxScore > -3500 /\ e.semanticScore > 450
                            \/ e.syntaxScore <= -3500 /\ e.semanticScore > 800
            /\ (e.syntaxScore = -2000 /\ e.semanticScore = 500) => e.passed
            /\ (e.syntaxScore = -4000 /\ e.semanticScore = 850) =>
                    (e.passed /\ ~(e.syntaxScore > SYNTAX_FLOOR))
            /\ (e.syntaxScore = -4000 /\ e.semanticScore = 500) => ~e.passed

\* C6: every result of processSubstitution carries a reason that is one of
\* the ten tags, and passed is true exactly when the reason is PASSED.
C6_ReasonClosedSet ==
    \A p \in AllPS :
        LET e == responses[p[1]].psLog[p[2]].result
        IN  /\ "reason" \in e.fields
            /\ e.reason \in {"PASSED", "MODEL_NOT_READY", "ANTONYM_DETECTED",
                             "NOT_SIMILAR_ENOUGH", "TOO_SIMILAR", "PROPER_NOUN",
                             "IDIOM_DETECTED", "NEGATION_CONTEXT",
                             "SEMANTIC_FAILED", "SYNTAX_FAILED"}
            /\ e.passed <=> e.reason = "PASSED"

----------------------------------------------------------------------------
(* Requests in flight together                                             *)

\* the number of requests of a behaviour of SpecConc
MaxRequestsConc == 3

\* the listener calls handleWorkerMessage, which runs to its first provider
\* call; the listener then acknowledges and returns
Receive(type, args) ==
    /\ nextId < MaxRequestsConc
    /\ nextId' = nextId + 1
    /\ Store(Run(Begin(type, args), EngineState))
    /\ UNCHANGED <<engine, world>>

\* the provider call of a suspended handler settles and the handler runs on
ProviderAnswers ==
    \E id \in DOMAIN handlers, ok \in BOOLEAN :
        /\ ok \/ handlers[id].pending.kind = "load"
        /\ LET r == Resume(handlers[id], EngineState, ok)
           IN  Store(Run(r.h, r.S))
        /\ UNCHANGED <<engine, world, nextId>>

BatchConc == <<Entry(W_hot, W_warm), Entry(W_big, W_small)>>

ReceiveInit == Receive("init", NoArgs)
ReceiveProcessText == Receive("processText", PTArgs(T_hot_big, NoDensity))
ReceiveProcessSubstitution ==
    Receive("processSubstitution", PSArgs(S_hot_tea, W_hot, W_scalding))
ReceiveFindBestSubstitution ==
    Receive("findBestSubstitution", FBArgs(S_hot_tea, W_hot))
ReceiveAddCustomVocabulary == Receive("addCustomVocabulary", ACVArgs(BatchConc))
ReceiveClearCustomVocabulary == Receive("clearCustomVocabulary", NoArgs)

\* background.js creates the offscreen document: the engine of SpecConc
InitConc ==
    /\ engine = "offscreen"
    /\ world = WorldGood
    /\ InitState

NextConc ==
    \/ ReceiveInit
    \/ ReceiveProcessText
    \/ ReceiveProcessSubstitution
    \/ ReceiveFindBestSubstitution
    \/ ReceiveAddCustomVocabulary
    \/ ReceiveClearCustomVocabulary
    \/ ProviderAnswers

SpecConc == InitConc /\ [][NextConc]_vars

\* the handlers suspended on an embedding extraction or a mask prediction
InFlight ==
    {id \in DOMAIN handlers : handlers[id].pending.kind \in {"embed", "sentence", "mask"}}

\* C9: at most one provider call (embedding extraction or mask prediction) is
\* in flight at any time, in every interleaving of the requests.
C9_OneProviderCall == Cardinality(InFlight) <= 1

\* the vocabulary as each lookup of a document pass found it, for the passes
\* in flight and the answered ones
PassLogs ==
    {handlers[id].vocabLog : id \in {i \in DOMAIN handlers : handlers[i].type = "processText"}}
    \cup {responses[i].vocabLog :
            i \in {k \in 1..Len(responses) : responses[k].type = "processText"}}

\* the batches addCustomVocabulary was called with
BatchesSeen ==
    {handlers[id].args.vocabulary :
        id \in {i \in DOMAIN handlers : handlers[i].type = "addCustomVocabulary"}}
    \cup {responses[i].args.vocabulary :
            i \in {k \in 1..Len(responses) : responses[k].type = "addCustomVocabulary"}}

Applied(vocabulary, entry) ==
    /\ toLowerCase(entry.word) \in DOMAIN vocabulary
    /\ \E k \in 1..Len(vocabulary[toLowerCase(entry.word)]) :
          vocabulary[toLowerCase(entry.word)][k].word = entry.synonym

\* some entries of the batch are in the vocabulary and some are not
Torn(vocabulary, batch) ==
    /\ \E k \in 1..Len(batch) : Applied(vocabulary, batch[k])
    /\ \E k \in 1..Len(batch) : ~Applied(vocabulary, batch[k])

\* C10: a processText pass in flight while addCustomVocabulary or
\* clearCustomVocabulary runs sees, at every lookup, the vocabulary entirely
\* before or entirely after each batch or clear, and the same version for all
\* words of the pass.
C10_NoTornRead ==
    \A log \in PassLogs :
        /\ \A a, b \in 1..Len(log) : log[a] = log[b]
        /\ \A a \in 1..Len(log) : \A batch \in BatchesSeen : ~Torn(log[a], batch)

----------------------------------------------------------------------------
(* The heuristic guards inside processSubstitution, findBestSubstitution   *)
(* and processText                                                         *)

\* the number of requests of a behaviour of SpecGuard
MaxRequestsGuard == 2

S_isnt_hot == <<"i","t"," ","i","s","n","'","t"," ","h","o","t">>
S_a_bit_hot == <<"a"," ","b","i","t"," ","h","o","t">>
S_hot_water == <<"i","n"," ","h","o","t"," ","w","a","t","e","r">>

SentencesGuard ==
    {S_hot_tea, S_not_hot, S_isnt_hot, S_a_bit_hot, S_hot_dog, S_hot_water,
     S_Hot_Springs}

InitializeGuard == ServeUpTo(MaxRequestsGuard, "init", NoArgs, TRUE)

ProcessSubstitutionGuard ==
    \E sentence \in SentencesGuard :
        ServeUpTo(MaxRequestsGuard, "processSubstitution",
                  PSArgs(sentence, W_hot, W_scalding), TRUE)

FindBestSubstitutionGuard ==
    \E sentence \in SentencesGuard :
        ServeUpTo(MaxRequestsGuard, "findBestSubstitution",
                  FBArgs(sentence, W_HOT), TRUE)

ProcessTextGuard ==
    \E text \in SentencesGuard :
        ServeUpTo(MaxRequestsGuard, "processText", PTArgs(text, NoDensity), TRUE)

InitGuard ==
    /\ engine \in {"offscreen", "worker"}
    /\ world \in {WorldGood, WorldNone}
    /\ InitState

NextGuard ==
    \/ InitializeGuard
    \/ ProcessSubstitutionGuard
    \/ FindBestSubstitutionGuard
    \/ ProcessTextGuard

SpecGuard == InitGuard /\ [][NextGuard]_vars

\* the sentence the processSubstitution runs of a request were given
SentenceOf(r) == IF r.type = "processText" THEN r.args.text ELSE r.args.sentence

\* a token without the punctuation around it
RECURSIVE StripSurrounding(_)
StripSurrounding(w) ==
    IF w = <<>> THEN w
    ELSE IF Head(w) \in PunctChars THEN StripSurrounding(Tail(w))
    ELSE IF w[Len(w)] \in PunctChars THEN StripSurrounding(SubSeq(w, 1, Len(w) - 1))
    ELSE w

\* the (up to) four tokens before the first token that is the word, without
\* the punctuation around them
TokensBefore(sentence, word) ==
    LET tokens == Tokens(toLowerCase(sentence))
        stripped == [i \in 1..Len(tokens) |-> StripSurrounding(tokens[i])]
        at == {i \in 1..Len(tokens) : stripped[i] = toLowerCase(word)}
    IN  IF at = {} THEN <<>>
        ELSE SubSeq(stripped, Max({1, Min(at) - 4}), Min(at) - 1)

\* one of the four tokens before the word is a negator or a diminisher; a
\* diminisher of two words is two tokens in a row
NegatedBeforeWord(sentence, word) ==
    LET before == TokensBefore(sentence, word)
    IN  \/ \E i \in 1..Len(before) : before[i] \in NegatorWords \cup DiminisherWords
        \/ \E i \in 1..(Len(before) - 1) :
              (before[i] \o <<" ">> \o before[i + 1]) \in DiminisherWords

\* C11: when one of the four tokens before the first occurrence of the word
\* is, without the punctuation around it, a negator or a diminisher
\* (contractions and diminishers of two words included), checkNegation
\* reports negated, processSubstitution answers NEGATION_CONTEXT for a
\* candidate that reaches the negation gate, and processText does not
\* substitute the word.
C11_NegationBlocks ==
    /\ \A p \in AllPS :
          LET r == responses[p[1]]
              e == r.psLog[p[2]]
          IN  NegatedBeforeWord(SentenceOf(r), e.result.original)
              => checkNegation(engine, SentenceOf(r), e.result.original).isNegated
    /\ \A p \in AllPS :
          LET r == responses[p[1]]
              e == r.psLog[p[2]]
          IN  (/\ \E k \in 1..Len(e.gates) : e.gates[k] = "negation"
               /\ NegatedBeforeWord(SentenceOf(r), e.result.original))
              => (~e.result.passed /\ e.result.reason = "NEGATION_CONTEXT")
    /\ \A i \in ResponsesOf("processText") :
          \A k \in 1..Len(responses[i].result.substitutions) :
              ~NegatedBeforeWord(responses[i].args.text,
                                 responses[i].result.substitutions[k].original)

\* the sentence holds a phrase of ProperNounPatterns, in any letter case,
\* and the word is a word of that phrase
InProperNounPhrase(sentence, word) ==
    \E i \in 1..Len(ProperNounPatterns) :
        /\ includes(toLowerCase(sentence), ProperNounPatterns[i])
        /\ \E k \in 1..Len(Tokens(ProperNounPatterns[i])) :
              Tokens(ProperNounPatterns[i])[k] = toLowerCase(word)

\* C12: when the sentence holds, in any letter case, a phrase of
\* ProperNounPatterns that contains the word, every candidate that reaches
\* the proper-noun gate fails with PROPER_NOUN, findBestSubstitution returns
\* none for the word and processText makes no substitution of it.
C12_ProperNounBlocks ==
    /\ \A p \in AllPS :
          LET r == responses[p[1]]
              e == r.psLog[p[2]]
          IN  (/\ \E k \in 1..Len(e.gates) : e.gates[k] = "properNoun"
               /\ InProperNounPhrase(SentenceOf(r), e.result.original))
              => (~e.result.passed /\ e.result.reason = "PROPER_NOUN")
    /\ \A i \in 1..Len(responses) :
          (/\ responses[i].type = "findBestSubstitution"
           /\ InProperNounPhrase(responses[i].args.sentence, responses[i].args.word))
          => (responses[i].kind = "result" /\ IsNull(responses[i].result))
    /\ \A i \in 1..Len(responses) :
          responses[i].type = "processText" =>
              /\ responses[i].kind = "result"
              /\ \A k \in 1..Len(responses[i].result.substitutions) :
                    ~InProperNounPhrase(responses[i].args.text,
                                        responses[i].result.substitutions[k].original)

\* a loaded engine was given the text "Hot Springs": both candidates of hot
\* reached the proper-noun gate and the text came back unchanged
C12_Witness ==
    \E i \in ResponsesOf("processText") :
        /\ responses[i].args.text = S_Hot_Springs
        /\ responses[i].start.modelLoaded
        /\ Len(responses[i].psLog) = 2
        /\ \A j \in 1..Len(responses[i].psLog) :
              responses[i].psLog[j].result.reason = "PROPER_NOUN"
        /\ responses[i].result.substitutionsMade = 0
        /\ responses[i].result.modifiedText = S_Hot_Springs

\* a phrase registered for the word in IdiomDatabase is a substring of the
\* lowercased sentence
IdiomInSentence(sentence, word) ==
    LET phrases == Lookup(IdiomDatabase, toLowerCase(word))
    IN  \E i \in 1..Len(phrases) : includes(toLowerCase(sentence), phrases[i])

----------------------------------------------------------------------------
(* The vocabulary: lookup, selection, addCustomVocabulary and              *)
(* clearCustomVocabulary                                                   *)

\* the number of requests of a behaviour of SpecVocab
MaxRequestsVocab == 4

W_tea == <<"t","e","a">>

\* torrid and warm fit the sentence equally well, scalding less
WorldTie ==
    World(WorldGood.sim,
          (W_scalding :> -2000) @@ (W_torrid :> -1500) @@ (W_warm :> -1500) @@
          WorldGood.fill,
          WorldGood.ctx, {})

\* a batch for the key hot written in capitals, one whose entry has no
\* synonym and one whose entry has no word
BatchesVocab ==
    {<<Entry(W_HOT, W_warm)>>, <<Entry(W_hot, UNDEFINED)>>,
     <<Entry(UNDEFINED, W_warm)>>}

InitializeVocab == ServeUpTo(MaxRequestsVocab, "init", NoArgs, TRUE)

AddCustomVocabularyVocab ==
    \E batch \in BatchesVocab :
        ServeUpTo(MaxRequestsVocab, "addCustomVocabulary", ACVArgs(batch), TRUE)

ClearCustomVocabularyVocab ==
    ServeUpTo(MaxRequestsVocab, "clearCustomVocabulary", NoArgs, TRUE)

FindBestSubstitutionVocab ==
    \E word \in {W_hot, W_HOT, W_tea} :
        ServeUpTo(MaxRequestsVocab, "findBestSubstitution",
                  FBArgs(S_hot_tea, word), TRUE)

ProcessTextVocab ==
    ServeUpTo(MaxRequestsVocab, "processText", PTArgs(S_hot_tea, NoDensity), TRUE)

InitVocab ==
    /\ engine \in {"offscreen", "worker"}
    /\ world = WorldTie
    /\ InitState

NextVocab ==
    \/ InitializeVocab
    \/ AddCustomVocabularyVocab
    \/ ClearCustomVocabularyVocab
    \/ FindBestSubstitutionVocab
    \/ ProcessTextVocab

SpecVocab == InitVocab /\ [][NextVocab]_vars

\* the runs of processSubstitution of a request that passed, by their place
Passing(r) == {j \in 1..Len(r.psLog) : r.psLog[j].result.passed}

\* the place of the first passing run with the highest syntaxScore
BestOf(r) ==
    CHOOSE j \in Passing(r) :
        /\ \A k \in Passing(r) :
              r.psLog[k].result.syntaxScore <= r.psLog[j].result.syntaxScore
        /\ \A k \in Passing(r) :
              r.psLog[k].result.syntaxScore = r.psLog[j].result.syntaxScore => j <= k

\* C14: findBestSubstitution returns none when the word has no candidates or
\* none passes; otherwise the passing candidate with the highest syntaxScore,
\* the first in candidate order among equals; never one that did not pass.
C14_BestPassingFirst ==
    \A i \in ResponsesOf("findBestSubstitution") :
        LET r == responses[i]
        IN  IF Passing(r) = {} THEN IsNull(r.result)
            ELSE /\ ~IsNull(r.result)
                 /\ r.result.passed
                 /\ r.result = r.psLog[BestOf(r)].result

\* of three passing candidates of hot the second (built-in) and the third
\* (custom) share the highest syntaxScore, and the second was returned
C14_Witness ==
    \E i \in ResponsesOf("findBestSubstitution") :
        LET r == responses[i]
        IN  /\ Passing(r) = {1, 2, 3}
            /\ r.psLog[1].result.syntaxScore < r.psLog[2].result.syntaxScore
            /\ r.psLog[2].result.syntaxScore = r.psLog[3].result.syntaxScore
            /\ r.psLog[3].result.candidate = W_warm
            /\ r.result.candidate = W_torrid

\* the words of a candidate list
WordsIn(candidates) == [k \in 1..Len(candidates) |-> candidates[k].word]

\* the synonyms a batch gives for a key, in the order of the batch
SynonymsFor(batch, key) ==
    LET sel == SelectSeq(batch, LAMBDA entry : toLowerCase(entry.word) = key)
    IN  [k \in 1..Len(sel) |-> sel[k].synonym]

\* the custom synonyms of a key after the first n answered requests
RECURSIVE CustomAfter(_, _)
CustomAfter(n, key) ==
    IF n = 0 THEN <<>>
    ELSE IF responses[n].type = "clearCustomVocabulary" THEN <<>>
    ELSE IF responses[n].type = "addCustomVocabulary"
    THEN CustomAfter(n - 1, key) \o SynonymsFor(responses[n].args.vocabulary, key)
    ELSE CustomAfter(n - 1, key)

\* every entry of every batch sent before the i-th answer has a word and a
\* synonym
PairsBefore(i) ==
    \A n \in 1..(i - 1) :
        responses[n].type = "addCustomVocabulary" =>
            \A k \in 1..Len(responses[n].args.vocabulary) :
                /\ responses[n].args.vocabulary[k].word # UNDEFINED
                /\ responses[n].args.vocabulary[k].synonym # UNDEFINED

\* the candidates a findBestSubstitution request evaluated, in order
Evaluated(r) == [j \in 1..Len(r.psLog) |-> r.psLog[j].result.candidate]

\* C15: the candidates findBestSubstitution evaluates for a word are the
\* built-in list of the lowercased word followed by its custom list in
\* insertion order; a (word, synonym) pair added k times is there k times.
C15_BuiltinThenCustom ==
    \A i \in ResponsesOf("findBestSubstitution") :
        PairsBefore(i) =>
            LET key == toLowerCase(responses[i].args.word)
            IN  Evaluated(responses[i])
                    = WordsIn(Lookup(GREVocabularyDatabase, key)) \o CustomAfter(i - 1, key)

\* HOT -> warm was added twice and the candidates of hot were then the two
\* built-in ones followed by warm, twice
C15_Witness ==
    \E i \in ResponsesOf("findBestSubstitution") :
        /\ i = 3
        /\ PairsBefore(i)
        /\ responses[i].args.word = W_hot
        /\ Evaluated(responses[i]) = <<W_scalding, W_torrid, W_warm, W_warm>>

\* C16: addCustomVocabulary answers an entry without word or synonym with an
\* error and adds nothing for it: every candidate of CustomVocabulary has a
\* key and a synonym, and no later request evaluates an undefined candidate.
C16_EntriesValidated ==
    /\ \A i \in 1..Len(responses) :
          (/\ responses[i].type = "addCustomVocabulary"
           /\ \E k \in 1..Len(responses[i].args.vocabulary) :
                 \/ responses[i].args.vocabulary[k].word = UNDEFINED
                 \/ responses[i].args.vocabulary[k].synonym = UNDEFINED)
          => responses[i].kind = "error"
    /\ \A key \in DOMAIN customVocabulary :
          /\ key # UNDEFINED
          /\ \A k \in 1..Len(customVocabulary[key]) :
                customVocabulary[key][k].word # UNDEFINED
    /\ \A i \in 1..Len(responses) :
          responses[i].type \in {"processText", "findBestSubstitution"} =>
              /\ responses[i].kind = "result"
              /\ \A j \in 1..Len(responses[i].psLog) :
                    responses[i].psLog[j].result.candidate # UNDEFINED

\* a clearCustomVocabulary request is answered in this step
AnswersClear ==
    /\ Len(responses') = Len(responses) + 1
    /\ responses'[Len(responses')].type = "clearCustomVocabulary"

C17_ClearFrame ==
    AnswersClear =>
        /\ customVocabulary' = EmptyMap
        /\ UNCHANGED <<modelLoaded, modelLoading, extractor, fillMask,
                       embeddingCache, contextCache>>

\* no vocabulary was added between the last clear and the i-th answer
ClearedBefore(i) ==
    \E n \in 1..(i - 1) :
        /\ responses[n].type = "clearCustomVocabulary"
        /\ \A m \in (n + 1)..(i - 1) : responses[m].type # "addCustomVocabulary"

C17_BuiltinAfterClear ==
    \A i \in 1..Len(responses) :
        (responses[i].type = "findBestSubstitution" /\ ClearedBefore(i)) =>
            /\ responses[i].kind = "result"
            /\ Evaluated(responses[i])
                  = WordsIn(Lookup(GREVocabularyDatabase,
                                   toLowerCase(responses[i].args.word)))

\* C17: clearCustomVocabulary empties the custom map and leaves the embedding
\* cache, the context cache and the model-loading flags as they were; every
\* lookup after it returns the built-in candidates only.
C17_ClearOnlyCustom == [](C17_BuiltinAfterClear) /\ [][C17_ClearFrame]_vars

\* a loaded engine with a filled embedding cache and a custom entry was
\* cleared: the next request found the cache as it was before the clear and
\* no custom entry, and the candidates of hot were the built-in ones
C17_Witness ==
    /\ Len(responses) = 4
    /\ responses[3].type = "clearCustomVocabulary"
    /\ responses[3].start.modelLoaded
    /\ responses[3].start.customVocabulary # EmptyMap
    /\ responses[3].start.embeddingCache # EmptyMap
    /\ responses[4].type = "findBestSubstitution"
    /\ responses[4].start.embeddingCache = responses[3].start.embeddingCache
    /\ responses[4].start.customVocabulary = EmptyMap
    /\ Evaluated(responses[4]) = <<W_scalding, W_torrid>>

----------------------------------------------------------------------------
(* The caches and the embedding provider                                   *)

C18_KeysStay ==
    /\ DOMAIN embeddingCache \subseteq DOMAIN embeddingCache'
    /\ DOMAIN contextCache \subseteq DOMAIN contextCache'

C18_WellFormed ==
    /\ \A key \in DOMAIN embeddingCache : key = toLowerCase(key)
    /\ \A key \in DOMAIN contextCache : Len(contextCache[key]) \in 1..3

\* C18: no operation removes a key of EmbeddingCache or ContextCache, every
\* EmbeddingCache key is a lowercased word, and every ContextCache entry
\* holds between 1 and 3 vectors.
C18_CachesGrow == [](C18_WellFormed) /\ [][C18_KeysStay]_vars

\* the AI worker was initialised, the synonym Cold was added and the custom
\* vocabulary cleared: the vector of Cold is still cached, under cold, and
\* the three example vectors of scalding are still in the context cache
C18_Witness ==
    /\ Len(responses) = 3
    /\ responses[2].type = "addCustomVocabulary"
    /\ responses[3].type = "clearCustomVocabulary"
    /\ W_cold \in DOMAIN embeddingCache
    /\ W_scalding \in DOMAIN contextCache
    /\ Len(contextCache[W_scalding]) = 3

\* the successful answers of the embedding provider, each by the request it
\* was given to and its place among the answers to that request
Embedded ==
    UNION {{<<"handler", id, k>> : k \in 1..Len(handlers[id].embedded)} :
              id \in DOMAIN handlers}
    \cup UNION {{<<"response", i, k>> : k \in 1..Len(responses[i].embedded)} :
                   i \in 1..Len(responses)}

EmbeddedWord(a) ==
    IF a[1] = "handler" THEN handlers[a[2]].embedded[a[3]]
    ELSE responses[a[2]].embedded[a[3]]

\* C19: in every sequence and interleaving of operations the provider answers
\* for a lowercased word at most once, and a getEmbedding call for a word that
\* is in EmbeddingCache, in any letter case, makes no provider call.
C19_EmbeddedOnce ==
    /\ \A a, b \in Embedded : EmbeddedWord(a) = EmbeddedWord(b) => a = b
    /\ \A id \in DOMAIN handlers :
          handlers[id].pending.kind = "embed" =>
              toLowerCase(handlers[id].pending.arg)
                  \notin DOMAIN handlers[id].start.embeddingCache

\* the candidates of a key in the engine state S
CandidatesIn(S, key) ==
    WordsIn(Lookup(GREVocabularyDatabase, key) \o Lookup(S.customVocabulary, key))

\* the candidates of the keys of a sequence, one list after the other
RECURSIVE CandidatesOfKeys(_, _)
CandidatesOfKeys(S, keys) ==
    IF keys = <<>> THEN <<>>
    ELSE CandidatesIn(S, Head(keys)) \o CandidatesOfKeys(S, Tail(keys))

\* the lookup keys among the tokens of a text, in the engine state S
KeysOfText(S, text) ==
    {stripPunctuation(toLowerCase(Tokens(text)[k])) : k \in 1..Len(Tokens(text))}
    \cap (DOMAIN GREVocabularyDatabase \cup DOMAIN S.customVocabulary)

\* the provider has no vector for the word
Unavailable(word) == toLowerCase(word) \in world.throws

----------------------------------------------------------------------------
(* Error handling of the scores and of the providers                       *)

\* the value scoreSyntax has to return for a candidate in a sentence: the log
\* score of the prediction equal to the lowercased candidate, the floor when
\* the sentence holds nothing to mask or the candidate is not predicted
SyntaxExpected(sentence, original, candidate) ==
    IF WordMatches(sentence, original) = {} THEN SYNTAX_MISSING
    ELSE IF toLowerCase(candidate) \notin DOMAIN world.fill THEN SYNTAX_MISSING
    ELSE world.fill[toLowerCase(candidate)]

\* C21: the syntax score is always defined and scoreSyntax never throws: it
\* is the log score of the prediction that equals the candidate without
\* regard to case, and the floor -10 when the candidate is not predicted or
\* the Mask Predictor fails.
C21_SyntaxScoreDefined ==
    \A p \in Scored :
        LET r == responses[p[1]]
            e == r.psLog[p[2]].result
        IN  /\ r.kind = "result"
            /\ "syntaxScore" \in e.fields
            /\ e.syntaxScore \in Int
            /\ e.syntaxScore = SyntaxExpected(r.args.sentence, e.original, e.candidate)

\* a capitalised candidate is scored by the prediction of its lowercase form
C21_Witness ==
    \E p \in Scored :
        LET e == responses[p[1]].psLog[p[2]].result
        IN  /\ e.candidate = W_Scalding
            /\ e.syntaxScore = -2000
            /\ e.syntaxScore = world.fill[W_scalding]

\* a sentence with nothing to mask is scored by the floor although the
\* candidate is among the predictions
C21_FloorOnFailure ==
    \E p \in Scored :
        /\ responses[p[1]].args.sentence = S_iced_tea
        /\ W_scalding \in DOMAIN world.fill
        /\ responses[p[1]].psLog[p[2]].result.syntaxScore = SYNTAX_MISSING

\* the answers to requests that arrived while the model was not loaded
NotReady(type) ==
    {i \in 1..Len(responses) :
        responses[i].type = type /\ ~responses[i].start.modelLoaded}

C22_ReturnedOutcome ==
    /\ \A i \in NotReady("processSubstitution") :
          LET r == responses[i]
          IN  /\ r.kind = "result"
              /\ ~r.result.passed
              /\ r.result.reason = "MODEL_NOT_READY"
              /\ Len(r.psLog) = 1
              /\ r.psLog[1].calls = <<>>
              /\ r.embedded = <<>>
    /\ \A i \in NotReady("processText") :
          LET r == responses[i]
          IN  /\ r.kind = "result"
              /\ r.result.modifiedText = r.args.text
              /\ r.result.substitutions = <<>>
              /\ r.result.substitutionsMade = 0
              /\ \A j \in 1..Len(r.psLog) : r.psLog[j].calls = <<>>

\* a step that answers a request received while the model was not loaded
\* leaves both caches as they were
C22_CachesUntouched ==
    (/\ Len(responses') = Len(responses) + 1
     /\ responses'[Len(responses')].type \in {"processSubstitution", "processText"}
     /\ ~modelLoaded)
        => UNCHANGED <<embeddingCache, contextCache>>

\* C22: while the model is not loaded, processSubstitution returns passed =
\* false with reason MODEL_NOT_READY without calling a provider or changing
\* a cache, and processText returns normally with modifiedText equal to the
\* input text, an empty substitutions list and substitutionsMade = 0.
C22_NotReadyIsReturned == [](C22_ReturnedOutcome) /\ [][C22_CachesUntouched]_vars

\* both requests were answered before the model was loaded, the text with
\* a vocabulary word in it
C22_Witness ==
    /\ ~modelLoaded
    /\ \E i \in NotReady("processSubstitution"), j \in NotReady("processText") :
          /\ responses[i].result.reason = "MODEL_NOT_READY"
          /\ responses[j].result.modifiedText = T_hot_hot

----------------------------------------------------------------------------
(* The background script: sendToWorker and handleOffscreenMessage          *)

\* the number of sendToWorker calls of a behaviour of SpecBg
MaxRequestsBg == 3

\* the outcome of the promise of a request goes to the tab that asked: the
\* result as replaceSelection, the rejection as showError
Settle(b, id, outcome) ==
    [b EXCEPT !.promises = (id :> outcome) @@ @,
              !.tab = @ \cup {[id |-> id,
                               type |-> IF outcome = "resolved" THEN "replaceSelection"
                                        ELSE "showError"]}]

\* the executor of sendToWorker up to the await of chrome.runtime.sendMessage;
\* the offscreen document exists
sendToWorker(b) ==
    LET id == b.requestId + 1
    IN  [b EXCEPT !.requestId = id,
                  !.pendingRequests = @ \cup {id},
                  !.promises = (id :> "pending") @@ @,
                  !.sent = @ \cup {id}]

\* the listener of the offscreen document: handleWorkerMessage is started
\* and the message is acknowledged
OffscreenListener(b, id) ==
    [b EXCEPT !.sent = @ \ {id}, !.working = @ \cup {id}, !.acks = @ \cup {id}]

\* the catch of sendToWorker when the message could not be sent, and the
\* setTimeout that follows it
SendFailed(b, id) ==
    LET b1 == [b EXCEPT !.sent = @ \ {id}, !.pendingRequests = @ \ {id},
                        !.timers = @ \cup {id}]
    IN  Settle(b1, id, "sendFailed")

\* the acknowledgment carries no error: the timer of 120 seconds is armed
Acknowledged(b, id) == [b EXCEPT !.acks = @ \ {id}, !.timers = @ \cup {id}]

\* handleWorkerMessage ends: sendResponse(id, result) or sendError(id, error);
\* the message of sendError has no result field
EngineAnswers(b, id, originalType) ==
    [b EXCEPT !.working = @ \ {id},
              !.inbox = @ \cup {[id |-> id, originalType |-> originalType,
                                 hasResult |-> originalType = "response"]}]

\* the callback of setTimeout
TimeoutCallback(b, id) ==
    LET b1 == [b EXCEPT !.timers = @ \ {id}]
    IN  IF id \in b.pendingRequests
        THEN Settle([b1 EXCEPT !.pendingRequests = @ \ {id}], id, "timeout")
        ELSE b1

\* handleOffscreenMessage settling whatever id the message names
handleWorkerResponseUnchecked(b, m) ==
    LET b1 == [b EXCEPT !.inbox = @ \ {m}, !.handled = @ \cup {m.id}]
    IN  IF ~m.hasResult THEN b1
        ELSE Settle([b1 EXCEPT !.pendingRequests = @ \ {m.id}], m.id, "resolved")

\* case 'workerResponse' of handleOffscreenMessage; JSON.stringify(result) of
\* a message without result is undefined and its substring a TypeError, which
\* ends the handler before it looks at pendingRequests
handleWorkerResponse(b, m) ==
    LET b1 == [b EXCEPT !.inbox = @ \ {m}, !.handled = @ \cup {m.id}]
    IN  IF ~m.hasResult THEN b1
        ELSE IF m.id \in b.pendingRequests
        THEN Settle([b1 EXCEPT !.pendingRequests = @ \ {m.id}], m.id,
                    IF m.originalType = "error" THEN "error" ELSE "resolved")
        ELSE b1

EngineFrame ==
    UNCHANGED <<engine, world, modelLoaded, modelLoading, extractor, fillMask,
                embeddingCache, contextCache, customVocabulary, handlers,
                responses, nextId, page>>

SendToWorkerBg ==
    /\ background.requestId < MaxRequestsBg
    /\ background' = sendToWorker(background)
    /\ EngineFrame

OffscreenListenerBg ==
    \E id \in background.sent :
        /\ background' = OffscreenListener(background, id)
        /\ EngineFrame

SendFailedBg ==
    \E id \in background.sent :
        /\ background' = SendFailed(background, id)
        /\ EngineFrame

AcknowledgedBg ==
    \E id \in background.acks :
        /\ background' = Acknowledged(background, id)
        /\ EngineFrame

EngineAnswersBg ==
    \E id \in background.working, originalType \in {"response", "error"} :
        /\ background' = EngineAnswers(background, id, originalType)
        /\ EngineFrame

TimeoutBg ==
    \E id \in background.timers :
        /\ background' = TimeoutCallback(background, id)
        /\ EngineFrame

WorkerResponseBg ==
    \E m \in background.inbox :
        /\ background' = handleWorkerResponse(background, m)
        /\ EngineFrame

InitBg ==
    /\ engine = "offscreen"
    /\ world = WorldGood
    /\ InitState

NextBg ==
    \/ SendToWorkerBg
    \/ OffscreenListenerBg
    \/ SendFailedBg
    \/ AcknowledgedBg
    \/ EngineAnswersBg
    \/ TimeoutBg
    \/ WorkerResponseBg

SpecBg == InitBg /\ [][NextBg]_vars

\* the requests whose timer fired while they were pending
TimedOut(b) == {id \in DOMAIN b.promises : b.promises[id] = "timeout"}

C23_TimedOutRemoved ==
    \A id \in TimedOut(background) :
        /\ id \notin background.pendingRequests
        /\ [id |-> id, type |-> "showError"] \in background.tab
        /\ [id |-> id, type |-> "replaceSelection"] \notin background.tab

\* the timer firing on a pending request rejects it with the timeout error,
\* removes it and leaves the engine's work and its answers alone
C23_TimeoutRejects ==
    \A id \in background.timers \cap background.pendingRequests :
        background'.timers = background.timers \ {id} =>
            /\ background'.promises[id] = "timeout"
            /\ id \notin background'.pendingRequests
            /\ background'.working = background.working
            /\ background'.inbox = background.inbox

\* the workerResponse of a timed out request changes nothing of
\* ExtensionState and sends nothing to the tab
C23_LateDiscarded ==
    \A m \in background.inbox :
        (m \notin background'.inbox /\ m.id \in TimedOut(background)) =>
            /\ background'.requestId = background.requestId
            /\ background'.pendingRequests = background.pendingRequests
            /\ background'.promises = background.promises
            /\ background'.tab = background.tab

\* C23: when the 120-second timeout of a sendToWorker request fires before
\* its workerResponse arrives, the request is rejected with a timeout error
\* and removed from pendingRequests; the engine's work is not interrupted,
\* and the workerResponse that arrives later for that id resolves nothing,
\* applies no replacement and changes no background state.
C23_TimeoutDiscardsLate ==
    /\ [](C23_TimedOutRemoved)
    /\ [][C23_TimeoutRejects]_vars
    /\ [][C23_LateDiscarded]_vars

\* a request timed out while the engine worked on it, and the engine's
\* result for it has arrived since
C23_Witness ==
    \E id \in TimedOut(background) :
        /\ id \in background.handled
        /\ id \notin background.working
        /\ \A m \in background.inbox : m.id # id
        /\ \E other \in DOMAIN background.promises :
              background.promises[other] = "resolved"

----------------------------------------------------------------------------
(* The substitutions processText applies                                   *)

\* the number of requests of a behaviour of SpecApply
MaxRequestsApply == 3

W_dont_key == <<"d","o","n","t">>
T_dont_hot == <<"d","o","n","'","t"," ","h","o","t">>

\* big is the best candidate for hot, hot the only one for big, never a close
\* one for the key dont; no built-in candidate is similar enough
WorldSwap ==
    World((W_big :> 800) @@ (W_hot :> 800) @@ (W_never :> 900),
          (W_big :> -1000) @@ (W_hot :> -2000) @@ (W_never :> -1000),
          (W_big :> 600) @@ (W_hot :> 600) @@ (W_never :> 600), {})

\* a vocabulary whose entries are each other's synonyms, and one whose key
\* is a token without its apostrophe
BatchesApply ==
    {<<Entry(W_hot, W_big), Entry(W_big, W_hot)>>, <<Entry(W_dont_key, W_never)>>}

InitializeApply == ServeUpTo(MaxRequestsApply, "init", NoArgs, TRUE)

AddCustomVocabularyApply ==
    \E batch \in BatchesApply :
        ServeUpTo(MaxRequestsApply, "addCustomVocabulary", ACVArgs(batch), TRUE)

\* a text with a token that names a property every object inherits
T_constructor_hot ==
    <<"c","o","n","s","t","r","u","c","t","o","r"," ","h","o","t">>

ProcessTextApply ==
    \E text \in {T_hot_big, T_dont_hot, T_constructor_hot}, d \in {[num |-> 1, den |-> 1], NoDensity} :
        ServeUpTo(MaxRequestsApply, "processText", PTArgs(text, d), TRUE)

InitApply ==
    /\ engine \in {"offscreen", "worker"}
    /\ world = WorldSwap
    /\ InitState

NextApply == InitializeApply \/ AddCustomVocabularyApply \/ ProcessTextApply

SpecApply == InitApply /\ [][NextApply]_vars

\* C24: a selected substitution whose original has no whole-word occurrence
\* in the working text at its turn is absent from the substitutions list;
\* substitutionsMade equals the length of the substitutions list, and
\* modifiedText differs from originalText if and only if substitutionsMade > 0.
C24_SkippedNotCounted ==
    \A i \in ResponsesOf("processText") :
        LET r == responses[i].result
        IN  /\ r.substitutionsMade = Len(r.substitutions)
            /\ \A k \in 1..Len(r.substitutions) :
                  \/ WordMatches(r.originalText, r.substitutions[k].original) # {}
                  \/ \E j \in 1..(k - 1) :
                        toLowerCase(r.substitutions[j].replacement) =
                            r.substitutions[k].original
            /\ (r.modifiedText # r.originalText) <=> (r.substitutionsMade > 0)

----------------------------------------------------------------------------
(* The content script: rendering replacements and reverting them           *)

\* the longest substitutions list sent to the content script
MaxSubsPage == 2

LowerToUpper == [c \in LowerSet |-> UpperLetters[CHOOSE i \in 1..26 : LowerLetters[i] = c]]
ToUpperChar(c) == IF c \in LowerSet THEN LowerToUpper[c] ELSE c

\* String.prototype.toUpperCase
toUpperCase(s) == [i \in 1..Len(s) |-> ToUpperChar(s[i])]

\* preserveCase(original, replacement)
preserveCase(original, replacement) ==
    IF original = toUpperCase(original) THEN toUpperCase(replacement)
    ELSE IF original[1] = ToUpperChar(original[1])
    THEN <<ToUpperChar(replacement[1])>> \o Tail(replacement)
    ELSE replacement

\* text.split(/(\s+)/) without its empty pieces: the runs of whitespace and
\* the runs between them, in order
RECURSIVE splitParts(_)
splitParts(s) ==
    IF s = <<>> THEN <<>>
    ELSE LET other == {i \in 1..Len(s) : IsSpace(s[i]) # IsSpace(s[1])}
             n == IF other = {} THEN Len(s) ELSE Min(other) - 1
         IN  <<SubSeq(s, 1, n)>> \o splitParts(SubSeq(s, n + 1, Len(s)))

\* part.match(/^[.,!?;:'\"()-]*/)[0]
RECURSIVE leadingPunct(_)
leadingPunct(w) ==
    IF w # <<>> /\ Head(w) \in PunctChars THEN <<Head(w)>> \o leadingPunct(Tail(w))
    ELSE <<>>

\* part.match(/[.,!?;:'\"()-]*$/)[0]
RECURSIVE trailingPunct(_)
trailingPunct(w) ==
    IF w # <<>> /\ w[Len(w)] \in PunctChars
    THEN trailingPunct(SubSeq(w, 1, Len(w) - 1)) \o <<w[Len(w)]>>
    ELSE <<>>

TextNode(text) == [span |-> FALSE, text |-> text, original |-> <<>>, id |-> 0]
SpanNode(text, original, id) ==
    [span |-> TRUE, text |-> text, original |-> original, id |-> id]

\* the replacementMap of createReplacementFragment: a later substitution
\* with the same replacement overwrites the earlier one
RECURSIVE replacementMapOf(_)
replacementMapOf(substitutions) ==
    IF substitutions = <<>> THEN EmptyMap
    ELSE LET n == Len(substitutions)
             sub == substitutions[n]
         IN  (toLowerCase(sub.replacement) :> sub.original) @@
             replacementMapOf(SubSeq(substitutions, 1, n - 1))

\* the loop of createReplacementFragment over the parts: the nodes appended
\* to the fragment, spans numbered from nextSpan
RECURSIVE fragmentOf(_, _, _)
fragmentOf(parts, replacementMap, nextSpan) ==
    IF parts = <<>> THEN <<>>
    ELSE LET part == Head(parts)
             cleanWord == StripSurrounding(part)
             leading == leadingPunct(part)
             trailing == trailingPunct(part)
             key == toLowerCase(cleanWord)
         IN  IF IsSpace(part[1]) \/ key \notin DOMAIN replacementMap
             THEN <<TextNode(part)>> \o fragmentOf(Tail(parts), replacementMap, nextSpan)
             ELSE (IF leading # <<>> THEN <<TextNode(leading)>> ELSE <<>>)
                  \o <<SpanNode(cleanWord, replacementMap[key], nextSpan)>>
                  \o (IF trailing # <<>> THEN <<TextNode(trailing)>> ELSE <<>>)
                  \o fragmentOf(Tail(parts),
                                [k \in DOMAIN replacementMap \ {key} |-> replacementMap[k]],
                                nextSpan + 1)

createReplacementFragment(text, substitutions) ==
    fragmentOf(splitParts(text), replacementMapOf(substitutions), 1)

\* State.replacements after the spans of the nodes were registered
Registered(nodes) ==
    LET spans == {i \in 1..Len(nodes) : nodes[i].span}
    IN  [id \in {nodes[i].id : i \in spans} |->
            nodes[CHOOSE i \in spans : nodes[i].id = id].original]

\* the text of the document as the reader sees it
RECURSIVE TextOf(_)
TextOf(nodes) == IF nodes = <<>> THEN <<>> ELSE Head(nodes).text \o TextOf(Tail(nodes))

\* replaceSelection(result): the selected text is replaced by the fragment
replaceSelection(result) ==
    IF result.substitutionsMade = 0
    THEN [mode |-> "selection", before |-> result.originalText,
          nodes |-> <<TextNode(result.originalText)>>, replacements |-> EmptyMap,
          rendered |-> 0, sent |-> 0, reverted |-> 0]
    ELSE LET fragment == createReplacementFragment(result.modifiedText,
                                                   result.substitutions)
         IN  [mode |-> "selection", before |-> result.originalText,
              nodes |-> fragment, replacements |-> Registered(fragment),
              rendered |-> Cardinality(DOMAIN Registered(fragment)),
              sent |-> Len(result.substitutions), reverted |-> 0]

\* replaceWordInDocument(originalWord, replacementWord): the first text node
\* outside a replaced span in which the word occurs is split around a span
replaceWordInDocument(nodes, originalWord, replacementWord, id) ==
    LET nodesToReplace == {i \in 1..Len(nodes) :
                              ~nodes[i].span /\ WordMatches(nodes[i].text, originalWord) # {}}
    IN  IF nodesToReplace = {} THEN nodes
        ELSE LET i == Min(nodesToReplace)
                 text == nodes[i].text
                 matchIndex == Min(WordMatches(text, originalWord)) - 1
                 matchedWord == substring(text, matchIndex, matchIndex + Len(originalWord))
                 before == substring(text, 0, matchIndex)
                 after == substring(text, matchIndex + Len(matchedWord), Len(text))
             IN  SubSeq(nodes, 1, i - 1)
                 \o (IF before # <<>> THEN <<TextNode(before)>> ELSE <<>>)
                 \o <<SpanNode(preserveCase(matchedWord, replacementWord), matchedWord, id)>>
                 \o (IF after # <<>> THEN <<TextNode(after)>> ELSE <<>>)
                 \o SubSeq(nodes, i + 1, Len(nodes))

\* the loop of applyReplacements
RECURSIVE applyReplacements(_, _, _)
applyReplacements(nodes, substitutions, id) ==
    IF substitutions = <<>> THEN nodes
    ELSE LET sub == Head(substitutions)
         IN  applyReplacements(
                 replaceWordInDocument(nodes, sub.original, sub.replacement, id),
                 Tail(substitutions), id + 1)

\* revertWord(span, originalWord)
revertWord(pg, id) ==
    [pg EXCEPT !.nodes = [i \in 1..Len(pg.nodes) |->
                             IF pg.nodes[i].span /\ pg.nodes[i].id = id
                             THEN TextNode(pg.nodes[i].original) ELSE pg.nodes[i]],
               !.replacements = [k \in DOMAIN pg.replacements \ {id} |-> pg.replacements[k]],
               !.reverted = @ + 1]

T_Hot_tea == <<"H","o","t"," ","t","e","a">>
T_HOT_big == <<"H","O","T",","," ","b","i","g","!">>
TextsPage == {S_hot_tea, T_Hot_tea, T_hot_big, T_HOT_big, T_hot_hot, T_padded}

\* the substitutions the engine selects: originals are the cleaned lowercase
\* tokens of processText, candidates the synonyms of the vocabulary
PassedPage ==
    {[original |-> W_hot, candidate |-> W_scalding, similarity |-> 800,
      syntaxScore |-> -2000, semanticScore |-> 800, passed |-> TRUE],
     [original |-> W_big, candidate |-> W_enormous, similarity |-> 850,
      syntaxScore |-> -2500, semanticScore |-> 850, passed |-> TRUE]}

SelectedPage ==
    {q \in UNION {[1..n -> PassedPage] : n \in 1..MaxSubsPage} :
        \A i, j \in 1..Len(q) : i # j => q[i] # q[j]}

\* the result of processText for a text and the substitutions selected
ResultPage(text, selectedSubs) ==
    LET applied == ApplySubs(text, <<>>, selectedSubs)
    IN  [originalText |-> text, modifiedText |-> applied.modifiedText,
         substitutions |-> applied.substitutions,
         substitutionsMade |-> Len(applied.substitutions)]

PageFrame ==
    UNCHANGED <<engine, world, modelLoaded, modelLoading, extractor, fillMask,
                embeddingCache, contextCache, customVocabulary, handlers,
                responses, nextId, background>>

\* the message replaceSelection arrives for the selected text
ReplaceSelectionPage ==
    /\ page.mode = "none"
    /\ \E text \in TextsPage, selectedSubs \in SelectedPage :
          page' = replaceSelection(ResultPage(text, selectedSubs))
    /\ PageFrame

\* the message applyReplacements arrives for the text of the page
ApplyReplacementsPage ==
    /\ page.mode = "none"
    /\ \E text \in TextsPage, selectedSubs \in SelectedPage :
          LET result == ResultPage(text, selectedSubs)
              nodes == applyReplacements(<<TextNode(text)>>, result.substitutions, 1)
          IN  page' = [mode |-> "page", before |-> text, nodes |-> nodes,
                       replacements |-> Registered(nodes),
                       rendered |-> Cardinality(DOMAIN Registered(nodes)),
                       sent |-> Len(result.substitutions), reverted |-> 0]
    /\ PageFrame

\* a replaced word is clicked
RevertWordPage ==
    /\ page.mode # "none"
    /\ \E id \in DOMAIN page.replacements : page' = revertWord(page, id)
    /\ PageFrame

InitPage ==
    /\ engine \in {"offscreen", "worker"}
    /\ world = WorldGood
    /\ InitState

NextPage == ReplaceSelectionPage \/ ApplyReplacementsPage \/ RevertWordPage

SpecPage == InitPage /\ [][NextPage]_vars

\* every substitution sent was rendered as a span and every span was clicked
AllReverted ==
    /\ page.mode # "none"
    /\ page.sent > 0
    /\ page.rendered = page.sent
    /\ page.reverted = page.rendered

\* C25: for every replacement the content script renders, in selection mode
\* and in page mode, clicking the replaced word puts back exactly the text
\* that stood there before the replacement, including its letter case, and
\* removes the span from State.replacements.
C25_RevertRoundTrip ==
    page.mode # "none" =>
        /\ DOMAIN page.replacements =
              {page.nodes[i].id : i \in {k \in 1..Len(page.nodes) : page.nodes[k].span}}
        /\ AllReverted => TextOf(page.nodes) = page.before

\* the round trip in page mode alone
C25_PageModeRoundTrip ==
    page.mode = "page" =>
        /\ DOMAIN page.replacements =
              {page.nodes[i].id : i \in {k \in 1..Len(page.nodes) : page.nodes[k].span}}
        /\ AllReverted => TextOf(page.nodes) = page.before

----------------------------------------------------------------------------
(* Which occurrence of the word the guards judge                           *)

\* the number of requests of a behaviour of SpecOccur
MaxRequestsOccur == 3

S_hot_tea_hot_dog == <<"h","o","t"," ","t","e","a",","," ","h","o","t"," ","d","o","g">>
S_shot_not_hot == <<"s","h","o","t"," ","n","o","t"," ","h","o","t">>
S_dr_hot == <<"d","r"," ","h","o","t">>
S_Dr_Hot == <<"D","r"," ","H","o","t">>
S_a_Hot_tea == <<"a"," ","H","o","t"," ","t","e","a">>

\* a sentence and the same followed by an idiom, the word inside a longer
\* token before a negated occurrence, a title before the word in lower case
\* and capitalised, the word capitalised in mid-sentence, the word inside a
\* longer token only, and an intensifier two spaces before the word
S_shot_tea == <<"s","h","o","t"," ","t","e","a">>
S_very__hot == <<"v","e","r","y"," "," ","h","o","t">>

SentencesOccur ==
    {S_hot_tea, S_hot_tea_hot_dog, S_shot_not_hot, S_dr_hot, S_Dr_Hot, S_a_Hot_tea,
     S_shot_tea, S_very__hot}

InitializeOccur == ServeUpTo(MaxRequestsOccur, "init", NoArgs, TRUE)

ProcessSubstitutionOccur ==
    \E sentence \in SentencesOccur :
        ServeUpTo(MaxRequestsOccur, "processSubstitution",
                  PSArgs(sentence, W_hot, W_scalding), TRUE)

ProcessTextOccur ==
    \E text \in SentencesOccur :
        ServeUpTo(MaxRequestsOccur, "processText",
                  PTArgs(text, [num |-> 1, den |-> 1]), TRUE)

InitOccur ==
    /\ engine \in {"offscreen", "worker"}
    /\ world = WorldGood
    /\ InitState

NextOccur == InitializeOccur \/ ProcessSubstitutionOccur \/ ProcessTextOccur

SpecOccur == InitOccur /\ [][NextOccur]_vars

\* the runs of processSubstitution that evaluated the given gate
Reached(gate) ==
    {p \in AllPS : \E k \in 1..Len(responses[p[1]].psLog[p[2]].gates) :
                      responses[p[1]].psLog[p[2]].gates[k] = gate}

\* the part of a sentence before its first comma
FirstClause(s) ==
    LET commas == {i \in 1..Len(s) : s[i] = ","}
    IN  IF commas = {} THEN s ELSE SubSeq(s, 1, Min(commas) - 1)

\* what the three guards said of a run
GuardVerdict(e) ==
    IF e.result.reason \in {"PROPER_NOUN", "IDIOM_DETECTED", "NEGATION_CONTEXT"}
    THEN e.result.reason ELSE "none"

\* C26: the verdicts of the proper-noun, idiom and negation guards depend
\* only on the first occurrence of the word and its immediate context: two
\* sentences with the same first clause, which holds the first occurrence,
\* get the same verdict for the word, whatever text follows.
C26_FirstOccurrenceOnly ==
    \A p \in Reached("properNoun"), q \in Reached("properNoun") :
        LET rp == responses[p[1]]
            rq == responses[q[1]]
            ep == rp.psLog[p[2]]
            eq == rq.psLog[q[2]]
        IN  (/\ ep.result.original = eq.result.original
             /\ FirstClause(SentenceOf(rp)) = FirstClause(SentenceOf(rq))
             /\ WordMatches(FirstClause(SentenceOf(rp)), ep.result.original) # {})
            => GuardVerdict(ep) = GuardVerdict(eq)

\* the 0-based position checkNegation takes for the word: indexOf on the
\* lowercased sentence
InspectedPosition(sentence, word) == indexOf(toLowerCase(sentence), toLowerCase(word))

\* the 0-based position of the match of new RegExp(`\\b${word}\\b`, 'i'),
\* which processSubstitution masks and processText replaces; -1 if none
RewrittenPosition(sentence, word) ==
    IF WordMatches(sentence, word) = {} THEN -1
    ELSE Min(WordMatches(sentence, word)) - 1

\* one of the four tokens before the first whole-word occurrence of the word
\* is a negator or a diminisher
NegatedAtWholeWord(sentence, word) ==
    LET at == RewrittenPosition(sentence, word)
        precedingText == trim(substring(toLowerCase(sentence), 0, at))
        precedingWords == sliceLast(splitWhitespace(precedingText), 4)
    IN  /\ at # -1
        /\ \E i \in 1..Len(precedingWords) :
              stripPunctuation(precedingWords[i]) \in NegatorWords \cup DiminisherWords

\* C27: the position whose four preceding tokens checkNegation inspects, the
\* position masked for syntax scoring and the position processText replaces
\* are the same whole-word occurrence of the word: a match inside a longer
\* token is never inspected, a run that reaches the negation gate is blocked
\* exactly when that occurrence is negated, and processText rewrites no
\* negated occurrence.
C27_JudgedIsRewritten ==
    /\ \A p \in Reached("negation") :
          LET r == responses[p[1]]
              e == r.psLog[p[2]]
          IN  /\ InspectedPosition(SentenceOf(r), e.result.original) =
                     RewrittenPosition(SentenceOf(r), e.result.original)
              /\ (e.result.reason = "NEGATION_CONTEXT")
                     <=> NegatedAtWholeWord(SentenceOf(r), e.result.original)
    /\ \A i \in ResponsesOf("processText") :
          \A k \in 1..Len(responses[i].result.substitutions) :
              ~NegatedAtWholeWord(responses[i].args.text,
                                  responses[i].result.substitutions[k].original)

\* the end (exclusive, 1-based) of a title at position i of s, with or
\* without its dot, followed by whitespace and a capitalised word; 0 if there
\* is none
TitleSpanEnd(s, title, i) ==
    LET n == Len(title)
        p == IF i + n <= Len(s) /\ s[i + n] = "." THEN i + n + 1 ELSE i + n
        nonSpace == {j \in p..Len(s) : ~IsSpace(s[j])}
        q == IF nonSpace = {} THEN Len(s) + 1 ELSE Min(nonSpace)
        nonLower == {j \in (q + 1)..Len(s) : s[j] \notin LowerSet}
        e == IF nonLower = {} THEN Len(s) + 1 ELSE Min(nonLower)
    IN  IF /\ StartsAt(toLowerCase(s), title, i)
           /\ WordBoundary(s, i)
           /\ q > p
           /\ q <= Len(s)
           /\ s[q] \in UpperSet
           /\ e > q + 1
        THEN e ELSE 0

\* a title token is immediately followed by a capitalised word and the first
\* occurrence of the word lies inside that span
TitleCondition(sentence, word) ==
    LET at == InspectedPosition(sentence, word) + 1
    IN  \E t \in 1..Len(TitlePatterns), i \in 1..Len(sentence) :
            /\ TitleSpanEnd(sentence, TitlePatterns[t], i) # 0
            /\ at >= i
            /\ at < TitleSpanEnd(sentence, TitlePatterns[t], i)

\* the first token that is the word is capitalised, is not the first token
\* and the token before it does not end a sentence
CapitalizedMidSentence(sentence, word) ==
    LET tokens == Tokens(sentence)
        at == {i \in 1..Len(tokens) :
                  toLowerCase(StripSurrounding(tokens[i])) = toLowerCase(word)}
    IN  /\ at # {}
        /\ Min(at) > 1
        /\ StripSurrounding(tokens[Min(at)])[1] \in UpperSet
        /\ tokens[Min(at) - 1][Len(tokens[Min(at) - 1])] \notin {".", "!", "?"}

\* C28: the title rule fires only when a title of TitlePatterns is
\* immediately followed by a capitalised word and the first occurrence of the
\* target lies inside that span; a title followed by a lowercase word never
\* makes the guard true, and whenever the condition holds a candidate that
\* reaches the proper-noun gate fails with PROPER_NOUN.
C28_TitleRule ==
    \A p \in Reached("properNoun") :
        LET r == responses[p[1]]
            e == r.psLog[p[2]]
            s == SentenceOf(r)
            w == e.result.original
        IN  /\ TitleCondition(s, w) =>
                   (~e.result.passed /\ e.result.reason = "PROPER_NOUN")
            /\ (/\ e.result.reason = "PROPER_NOUN"
                /\ ~InProperNounPhrase(s, w)
                /\ ~CapitalizedMidSentence(s, w)) => TitleCondition(s, w)

\* C29: when the first occurrence of the target is capitalised and is not the
\* first token after a sentence end, a candidate that reaches the
\* proper-noun gate fails with PROPER_NOUN and processText does not
\* substitute the word; a capitalised occurrence other than the first does
\* not trigger the rule.
C29_CapitalizedMidSentence ==
    /\ \A p \in Reached("properNoun") :
          LET r == responses[p[1]]
              e == r.psLog[p[2]]
              s == SentenceOf(r)
              w == e.result.original
          IN  /\ CapitalizedMidSentence(s, w) =>
                     (~e.result.passed /\ e.result.reason = "PROPER_NOUN")
              /\ (/\ e.result.reason = "PROPER_NOUN"
                  /\ ~InProperNounPhrase(s, w)
                  /\ \A t \in 1..Len(TitlePatterns) :
                        ~includes(toLowerCase(s), TitlePatterns[t]))
                 => CapitalizedMidSentence(s, w)
    /\ \A i \in ResponsesOf("processText") :
          \A k \in 1..Len(responses[i].result.substitutions) :
              ~CapitalizedMidSentence(responses[i].args.text,
                                      responses[i].result.substitutions[k].original)

----------------------------------------------------------------------------
(* The semantic score                                                      *)

\* the largest similarity of the sentence's context vector and the context
\* vectors cached for the candidate when the request arrived, 0 when none
\* is cached
ContextSimilarity(r, candidate) ==
    LET key == toLowerCase(candidate)
        cachedVectors == Lookup(r.start.contextCache, key)
    IN  IF Len(cachedVectors) = 0 \/ key \notin DOMAIN world.ctx THEN 0
        ELSE world.ctx[key]

\* C30: for a candidate that reaches scoring, semanticScore is the largest
\* similarity between the sentence's context vector and the candidate's
\* cached context vectors (at most 3; 0 when there are none), raised to the
\* embedding similarity when that is >= EMBEDDING_TRUST_THRESHOLD; below the
\* threshold it does not depend on the embedding similarity.
C30_SemanticScore ==
    \A p \in Scored :
        LET r == responses[p[1]]
            e == r.psLog[p[2]].result
            fromContext == ContextSimilarity(r, e.candidate)
        IN  /\ Len(Lookup(r.start.contextCache, toLowerCase(e.candidate))) <= 3
            /\ e.similarity >= EMBEDDING_TRUST_THRESHOLD =>
                  /\ e.semanticScore = Max({fromContext, e.similarity})
                  /\ e.semanticScore >= e.similarity
            /\ e.similarity < EMBEDDING_TRUST_THRESHOLD =>
                  e.semanticScore = fromContext

\* the statement in the AI worker alone
C30_WorkerSemanticScore == engine = "worker" => C30_SemanticScore

----------------------------------------------------------------------------
(* The tokens of processText and their lookup keys                         *)

\* the lowercased tokens of a text without the punctuation around them
SurroundStripped(text) ==
    {toLowerCase(StripSurrounding(Tokens(text)[k])) : k \in 1..Len(Tokens(text))}

\* C31: for every token scanned by processText the lookup key is the
\* lowercased token with its leading and trailing punctuation removed and
\* every interior character kept; keys shorter than 2 characters are never
\* looked up.
C31_KeysStripSurrounding ==
    \A i \in 1..Len(responses) :
        responses[i].type = "processText" =>
            \A k \in 1..Len(responses[i].fbLog) :
                /\ responses[i].fbLog[k] \in SurroundStripped(responses[i].args.text)
                /\ Len(responses[i].fbLog[k]) >= 2

----------------------------------------------------------------------------
(* The sentence handed to the Mask Predictor                               *)

\* the number of places at which sub stands in s
CountOf(s, sub) == Cardinality({i \in 1..Len(s) : StartsAt(s, sub, i)})

\* m is the sentence with one mask that ends where the first whole-word
\* occurrence of the word ends and begins there or, for an intensifier
\* taken in, before it
MaskedAtWord(m, sentence, word) ==
    LET at == RewrittenPosition(sentence, word)
        rest == SubSeq(sentence, at + Len(word) + 1, Len(sentence))
    IN  /\ at # -1
        /\ CountOf(m, MASK) = 1
        /\ indexOf(m, MASK) <= at
        /\ m = SubSeq(sentence, 1, indexOf(m, MASK)) \o MASK \o rest

\* C32: whenever the gate chain reaches syntax scoring, the sentence handed
\* to the Mask Predictor contains exactly one mask placeholder, in place of
\* the first case-insensitive whole-word occurrence of the target or of the
\* intensifier-expanded target, for every layout of the sentence.
C32_ExactlyOneMask ==
    \A p \in Scored :
        LET r == responses[p[1]]
            e == r.psLog[p[2]]
        IN  \A k \in 1..Len(e.masked) :
                MaskedAtWord(e.masked[k], SentenceOf(r), e.result.original)

----------------------------------------------------------------------------
(* Where the replacements of a pass land                                   *)

\* the pass replayed on the text with, for each character, whether it stood
\* in the input: every replacement matches characters of the input only
RECURSIVE LandsOnInput(_, _, _)
LandsOnInput(text, fromInput, substitutions) ==
    IF substitutions = <<>> THEN TRUE
    ELSE LET sub == Head(substitutions)
             hits == WordMatches(text, sub.original)
         IN  IF hits = {} THEN LandsOnInput(text, fromInput, Tail(substitutions))
             ELSE LET i == Min(hits)
                      n == Len(sub.original)
                  IN  /\ \A k \in i..(i + n - 1) : fromInput[k]
                      /\ LandsOnInput(
                             SubSeq(text, 1, i - 1) \o sub.replacement
                                 \o SubSeq(text, i + n, Len(text)),
                             SubSeq(fromInput, 1, i - 1)
                                 \o [k \in 1..Len(sub.replacement) |-> FALSE]
                                 \o SubSeq(fromInput, i + n, Len(fromInput)),
                             Tail(substitutions))

\* C33: when processText applies the selected substitutions one after
\* another, every replacement lands on text that was present in the original
\* input; none matches inside a candidate inserted by an earlier replacement
\* of the same pass.
C33_ConflictFree ==
    \A i \in ResponsesOf("processText") :
        LET r == responses[i].result
        IN  LandsOnInput(r.originalText, [k \in 1..Len(r.originalText) |-> TRUE],
                         r.substitutions)

----------------------------------------------------------------------------
(* The two implementations compared                                        *)

\* processSubstitution of the offscreen document on a loaded engine, as a
\* function of its arguments and of the provider's answers: what it returns
\* does not depend on what the caches hold
processSubstitutionOffscreen(sentence, original, candidate) ==
    LET Answer(passed, sim, syn, sem) ==
            [passed |-> passed, similarity |-> sim, syntaxScore |-> syn,
             semanticScore |-> sem]
        similarity == cosineSimilarity(ExtractorAnswer("word", original),
                                       ExtractorAnswer("word", candidate))
        negationResult == checkNegation("offscreen", sentence, original)
        maskedSentence == replaceWord(sentence, negationResult.expanded, MASK)
        syntaxScore == SyntaxFromAnswer(FillMaskAnswer(maskedSentence), candidate)
        semanticScore == IF similarity >= EMBEDDING_TRUST_THRESHOLD THEN similarity
                         ELSE similarity \div 2
    IN  IF isAntonym(original, candidate) THEN Answer(FALSE, 0, 0, 0)
        ELSE IF similarity < EMBEDDING_MIN \/ similarity > EMBEDDING_MAX
        THEN Answer(FALSE, similarity, 0, 0)
        ELSE IF \/ checkProperNoun("offscreen", sentence, original)
                \/ checkIdiom(sentence, original)
                \/ negationResult.isNegated
        THEN Answer(FALSE, similarity, 0, 0)
        ELSE Answer(Verdict(syntaxScore, semanticScore).passed, similarity,
                    syntaxScore, semanticScore)

\* the runs of processSubstitution on a loaded engine
LoadedPS == {p \in AllPS : responses[p[1]].start.modelLoaded
                           /\ responses[p[1]].type = "processSubstitution"}

\* C34: for the same provider answers and the same (sentence, original,
\* candidate), processSubstitution of the AI worker returns what
\* processSubstitution of the offscreen engine returns: the same passed
\* verdict, similarity, syntaxScore and semanticScore.
C34_EnginesEquivalent ==
    \A p \in LoadedPS :
        LET r == responses[p[1]]
            e == r.psLog[p[2]].result
            o == processSubstitutionOffscreen(r.args.sentence, e.original, e.candidate)
        IN  /\ e.passed = o.passed
            /\ e.similarity = o.similarity
            /\ e.syntaxScore = o.syntaxScore
            /\ e.semanticScore = o.semanticScore

\* the offscreen engine answers as the function says
C34_OffscreenIsReference == engine = "offscreen" => C34_EnginesEquivalent

----------------------------------------------------------------------------
(* Tokens that are not keys of the vocabulary                              *)

\* the keys that are own entries of a vocabulary while a request is served
OwnKeys(start) == DOMAIN GREVocabularyDatabase \cup DOMAIN start.customVocabulary

\* C35: a token that is not a key of the vocabulary is never evaluated and
\* never fails the pass: processText runs findBestSubstitution only for
\* lookup keys that are own entries of the built-in or of the custom
\* vocabulary, and it returns a result without throwing, also for a token
\* such as "constructor" that names a property every object inherits.
C35_NonKeysNeverEvaluated ==
    \A i \in 1..Len(responses) :
        responses[i].type = "processText" =>
            /\ responses[i].kind = "result"
            /\ \A k \in 1..Len(responses[i].fbLog) :
                  responses[i].fbLog[k] \in OwnKeys(responses[i].start)

----------------------------------------------------------------------------
(* The answers to 'init' and 'loadModel'                                   *)

\* C36: an 'init' or 'loadModel' request is answered with success only once
\* the model is loaded: whenever handleWorkerMessage sends a result for one
\* of them, State.modelLoaded is true at that moment, also for a request that
\* arrived while an earlier load was still in progress.
C36_SuccessOnlyWhenLoaded ==
    \A i \in 1..Len(responses) :
        (responses[i].type \in {"init", "loadModel"} /\ responses[i].kind = "result")
            => responses[i].loaded

----------------------------------------------------------------------------
(* The background script and the engine together: which requests are       *)
(* forwarded, and when                                                     *)

\* the number of messages the background receives from the popup, the context
\* menu and the content script in a behaviour of SpecReady
MaxRequestsReady == 3

\* the cases of handleMessage that forward their request to the engine
WorkTypes == {"processText", "processSubstitution", "findBestSubstitution"}

\* processWholePage and the context menu handler look at workerReady again
\* after initializeWorker
CheckedTypes == {"processWholePage", "contextMenu"}

\* the request a caller sends to the engine
ForwardedType(caller) == IF caller \in CheckedTypes THEN "processText" ELSE caller

\* the data of the forwarded requests: no token of the text and no word is a
\* key of the vocabulary, the candidate is an antonym of the original
WorkArgs(type) ==
    CASE type = "processText" -> PTArgs(W_tea, NoDensity)
      [] type = "findBestSubstitution" -> FBArgs(S_hot_tea, W_tea)
      [] type = "processSubstitution" -> PSArgs(S_hot_tea, W_hot, W_cold)
      [] OTHER -> NoArgs

\* the statuses sendStatus reports while the handler h0 runs on to r.h
StatusOf(h0, r) ==
    IF r.h.pc = "wait_p1" /\ h0.pc # "wait_p1" THEN <<"loading">>
    ELSE IF h0.pc = "wait_p1" /\ r.h.pc = "wait_p2" THEN <<"loading">>
    ELSE IF h0.pc \in {"wait_p1", "wait_p2"} /\ r.h.pc = "done" /\ r.h.kind = "error"
    THEN <<"error">>
    ELSE IF h0.pc = "wait_p2" /\ r.S.modelLoaded THEN <<"ready">>
    ELSE <<>>

\* the messages a segment of the engine sends to the background: the
\* statuses of loadModel, then the workerResponse if the handler has ended
Emit(b, h0, r) ==
    LET st == StatusOf(h0, r)
        q1 == b.queue \o [i \in 1..Len(st) |->
                             [type |-> "workerStatus", status |-> st[i], id |-> 0]]
        originalType == IF r.h.kind = "result" THEN "response" ELSE "error"
    IN  IF r.h.pc = "done"
        THEN [EngineAnswers(b, r.h.id, originalType) EXCEPT
                 !.queue = Append(q1, [type |-> "workerResponse",
                                       status |-> originalType, id |-> r.h.id])]
        ELSE [b EXCEPT !.queue = q1]

\* sendToWorker(type, data): the request is registered and sent, the listener
\* of the offscreen document starts handleWorkerMessage and acknowledges
RegisteredAndSent(b) ==
    LET id == b.requestId + 1
    IN  Acknowledged(OffscreenListener(sendToWorker(b), id), id)

\* the engine receives the request the background b sends and runs it to its
\* first provider call
EngineReceives(b, type) ==
    LET h0 == Begin(type, WorkArgs(type))
        r == Run(h0, EngineState)
    IN  /\ nextId' = nextId + 1
        /\ StoreEngine(r)
        /\ background' = Emit(RegisteredAndSent(b), h0, r)

\* return await sendToWorker(type, message.data) of a caller
Forward(b, caller) ==
    LET type == ForwardedType(caller)
        sent == [id |-> b.requestId + 1, type |-> type, caller |-> caller,
                 loaded |-> modelLoaded]
    IN  EngineReceives([b EXCEPT !.forwarded = @ \cup {sent}], type)

EngineUnchanged ==
    UNCHANGED <<modelLoaded, modelLoading, extractor, fillMask, embeddingCache,
                contextCache, customVocabulary, handlers, responses, nextId>>

\* initializeWorker called by a caller, up to await sendToWorker('init'), and
\* what the caller does when initializeWorker returns at once
initializeWorker(b, caller) ==
    IF b.workerReady \/ b.workerLoading
    THEN IF caller \in WorkTypes THEN Forward(b, caller)
         \* 'Model not loaded', or nothing more for 'initWorker'
         ELSE background' = b /\ EngineUnchanged
    ELSE EngineReceives([b EXCEPT !.workerLoading = TRUE,
                                  !.waiting = (b.requestId + 1 :> caller) @@ @],
                        "init")

\* a message of the popup, the context menu or the content script: the case
\* of handleMessage, processWholePage or the onClicked listener up to its
\* first await that another message can overtake
MessageReady ==
    \E caller \in WorkTypes \cup CheckedTypes \cup {"initWorker"} :
        /\ background.arrived < MaxRequestsReady
        /\ LET b == [background EXCEPT !.arrived = @ + 1]
           IN  IF caller # "initWorker" /\ b.workerReady THEN Forward(b, caller)
               ELSE initializeWorker(b, caller)
        /\ UNCHANGED <<engine, world, page>>

\* a pipeline() of the loading engine settles, or another provider call
ProviderAnswersReady ==
    \E id \in DOMAIN handlers, ok \in BOOLEAN :
        /\ ok \/ handlers[id].pending.kind = "load"
        /\ LET s == Resume(handlers[id], EngineState, ok)
               r == Run(s.h, s.S)
           IN  /\ StoreEngine(r)
               /\ background' = Emit(background, handlers[id], r)
        /\ UNCHANGED <<engine, world, nextId, page>>

\* case 'workerStatus' of handleOffscreenMessage
handleWorkerStatus(b, status) ==
    [b EXCEPT !.workerLoading = status \in {"loading", "caching"},
              !.workerReady = status = "ready"]

\* the oldest message of the offscreen document reaches handleOffscreenMessage;
\* the 'init' a caller of initializeWorker awaits resolves: workerReady is set
\* and the caller goes on
DeliverReady ==
    /\ background.queue # <<>>
    /\ LET m == Head(background.queue)
           b == [background EXCEPT !.queue = Tail(@)]
           answer == [id |-> m.id, originalType |-> m.status,
                      hasResult |-> m.status = "response"]
           b1 == handleWorkerResponse(b, answer)
           caller == b.waiting[m.id]
           b2 == [b1 EXCEPT !.workerReady = TRUE,
                            !.waiting = [i \in DOMAIN @ \ {m.id} |-> @[i]]]
       IN  IF m.type = "workerStatus"
           THEN background' = handleWorkerStatus(b, m.status) /\ EngineUnchanged
           ELSE IF m.id \in DOMAIN b.waiting /\ b1.promises[m.id] = "resolved"
           THEN IF caller = "initWorker" THEN background' = b2 /\ EngineUnchanged
                ELSE Forward(b2, caller)
           ELSE background' = b1 /\ EngineUnchanged
    /\ UNCHANGED <<engine, world, page>>

\* the timer of a request fires; a caller of initializeWorker whose 'init' is
\* rejected resets workerLoading and throws
TimeoutReady ==
    \E id \in background.timers :
        /\ LET b1 == TimeoutCallback(background, id)
           IN  background' =
                   IF id \in DOMAIN b1.waiting /\ b1.promises[id] = "timeout"
                   THEN [b1 EXCEPT !.workerLoading = FALSE,
                                   !.waiting = [i \in DOMAIN @ \ {id} |-> @[i]]]
                   ELSE b1
        /\ EngineUnchanged
        /\ UNCHANGED <<engine, world, page>>

InitReady ==
    /\ engine = "offscreen"
    /\ world = WorldGood
    /\ InitState

NextReady == MessageReady \/ ProviderAnswersReady \/ DeliverReady \/ TimeoutReady

SpecReady == InitReady /\ [][NextReady]_vars

\* C37: the background forwards engine work only to a ready engine: no
\* processText, processSubstitution or findBestSubstitution request is sent
\* to the offscreen engine by handleMessage or processWholePage while the
\* engine's model is not yet loaded, also when the request arrives while
\* initializeWorker started by an earlier request is still loading.
C37_ForwardOnlyWhenLoaded ==
    \A f \in background.forwarded :
        f.caller \in WorkTypes \cup {"processWholePage"} => f.loaded

----------------------------------------------------------------------------
(* The listener of the offscreen document: acknowledgements and answers    *)

\* the number of messages the listener is called with in a behaviour of
\* SpecListen
MaxRequestsListen == 3

\* the workerType of the messages: loading, a text on which processText
\* throws, and a type handleWorkerMessage has no case for
ListenTypes == {"init", "processText", "bogus"}

ListenArgs(workerType) ==
    IF workerType = "processText" THEN PTArgs(T_constructor_hot, NoDensity)
    ELSE NoArgs

\* what the listener passes to sendResponseSync
ReplyOf(target, type) ==
    IF target # "offscreen" THEN "none"
    ELSE CASE type = "workerMessage" -> "acknowledged"
           [] type = "getWorkerStatus" -> "status"
           [] type = "ping" -> "alive"
           [] OTHER -> "error"

\* chrome.runtime.onMessage of the offscreen document is called with a
\* message: handleWorkerMessage runs to its first await and the listener
\* acknowledges, or the listener replies itself, or it returns false
ListenerReceives ==
    \E target \in {"offscreen", "background"},
       type \in {"workerMessage", "ping"}, workerType \in ListenTypes :
        /\ nextId < MaxRequestsListen
        /\ (type # "workerMessage" \/ target # "offscreen") => workerType = "init"
        /\ nextId' = nextId + 1
        /\ background' =
              [background EXCEPT !.heard = @ \cup
                  {[id |-> nextId + 1, target |-> target, type |-> type,
                    workerType |-> workerType, reply |-> ReplyOf(target, type)]}]
        /\ IF target = "offscreen" /\ type = "workerMessage"
           THEN StoreEngine(Run(Begin(workerType, ListenArgs(workerType)), EngineState))
           ELSE UNCHANGED <<modelLoaded, modelLoading, extractor, fillMask,
                            embeddingCache, contextCache, customVocabulary,
                            handlers, responses>>
        /\ UNCHANGED <<engine, world, page>>

InitListen ==
    /\ engine = "offscreen"
    /\ world = WorldGood
    /\ InitState

NextListen == ListenerReceives \/ ProviderAnswers

SpecListen == InitListen /\ [][NextListen]_vars

\* the provider settles every call it is given
SpecListenFair == SpecListen /\ WF_vars(ProviderAnswers)

\* the workerResponse messages sent so far that carry the id
AnswersTo(id) == {i \in 1..Len(responses) : responses[i].id = id}

\* every message the listener heard: a workerMessage for the offscreen
\* document is acknowledged and has a running handler or one workerResponse,
\* a result or an error; any other message starts no handler and has no
\* workerResponse, and one for another target gets no reply
C38_Correlated ==
    \A m \in background.heard :
        IF m.target = "offscreen" /\ m.type = "workerMessage"
        THEN /\ m.reply = "acknowledged"
             /\ IF m.id \in DOMAIN handlers THEN AnswersTo(m.id) = {}
                ELSE Cardinality(AnswersTo(m.id)) = 1
             /\ \A i \in AnswersTo(m.id) : responses[i].kind \in {"result", "error"}
        ELSE /\ AnswersTo(m.id) = {}
             /\ m.id \notin DOMAIN handlers
             /\ m.target # "offscreen" => m.reply = "none"

\* a workerResponse, once sent, stays the only one of its id
C38_AnsweredOnce ==
    /\ Len(responses') >= Len(responses)
    /\ \A i \in 1..Len(responses) : responses'[i] = responses[i]

\* every handler that was started sends its workerResponse
C38_EventuallyAnswered ==
    \A id \in 1..MaxRequestsListen :
        (id \in DOMAIN handlers) ~> (AnswersTo(id) # {})

\* C38: every 'workerMessage' with target 'offscreen' is acknowledged at once
\* and is later answered by exactly one 'workerResponse' carrying the same id,
\* which is either a result or an error and never both, whatever the handler
\* does, also when it throws; messages whose target is not 'offscreen' are
\* ignored and produce neither acknowledgement nor response.
C38_RequestResponse ==
    /\ [](C38_Correlated)
    /\ [][C38_AnsweredOnce]_vars
    /\ C38_EventuallyAnswered

\* a handler that threw was answered with an error, another with a result
\* after it had waited for the provider, and a message for another target
\* was ignored
C38_Witness ==
    /\ \E m \in background.heard : m.target # "offscreen" /\ m.type = "workerMessage"
    /\ \E i \in 1..Len(responses) :
          responses[i].kind = "error" /\ responses[i].type = "processText"
    /\ \E i \in 1..Len(responses) :
          responses[i].kind = "result" /\ responses[i].type = "init"
                                       /\ responses[i].loaded

----------------------------------------------------------------------------
(* The requests of sendToWorker and their settlement                       *)

\* C39: every request registered by sendToWorker is settled exactly once:
\* request ids are unique and strictly increasing, each id in pendingRequests
\* is removed by the first of its workerResponse, a send failure or the
\* 120-second timeout, and its promise is then resolved or rejected; an id
\* whose workerResponse has been handled is no longer pending.
C39_SettledByFirstEvent ==
    /\ DOMAIN background.promises = 1..background.requestId
    /\ \A id \in DOMAIN background.promises :
          id \in background.pendingRequests <=> background.promises[id] = "pending"
    /\ \A id \in background.handled : id \notin background.pendingRequests

----------------------------------------------------------------------------
(* The loading of the model                                                *)

\* the number of requests of a behaviour of SpecLoad
MaxRequestsLoad == 3

\* an 'init' or a 'loadModel' request arrives, also while others are served;
\* the AI worker is sent 'loadModel' only, its 'init' goes on to pre-compute
\* the vocabulary
ReceiveLoad ==
    \E type \in {"init", "loadModel"} :
        /\ nextId < MaxRequestsLoad
        /\ engine = "worker" => type = "loadModel"
        /\ nextId' = nextId + 1
        /\ Store(Run(Begin(type, NoArgs), EngineState))
        /\ UNCHANGED <<engine, world>>

InitLoad ==
    /\ engine \in {"offscreen", "worker"}
    /\ world = WorldGood
    /\ InitState

NextLoad == ReceiveLoad \/ ProviderAnswers

SpecLoad == InitLoad /\ [][NextLoad]_vars

\* the handlers that are inside loadModel, awaiting a pipeline()
Loading == {id \in DOMAIN handlers : handlers[id].pending.kind = "load"}

C40_States ==
    /\ ~(modelLoaded /\ modelLoading)
    /\ modelLoaded => (extractor /\ fillMask)
    /\ Cardinality(Loading) <= 1
    /\ modelLoading <=> Loading # {}

\* modelLoaded stays true, and a load that ends without the model being
\* loaded leaves modelLoading false
C40_Steps ==
    /\ modelLoaded => modelLoaded'
    /\ \A id \in Loading :
          (id \notin DOMAIN handlers' \/ handlers'[id].pending.kind # "load")
              => (modelLoaded' \/ ~modelLoading')
    /\ \A id \in Loading :
          (Len(responses') > Len(responses)
             /\ responses'[Len(responses')].id = id
             /\ responses'[Len(responses')].kind = "error") => ~modelLoading'

\* C40: under any interleaving of 'init' and 'loadModel' requests,
\* modelLoaded and modelLoading are never both true, modelLoaded implies that
\* both pipelines are set, at most one load is in progress at a time,
\* modelLoaded never returns to false, and a failed load leaves modelLoading
\* false so that a later request can retry.
C40_LoadingStateMachine ==
    /\ [](C40_States)
    /\ [][C40_Steps]_vars

\* a load failed and a later request, which found the model neither loaded
\* nor loading, loaded it
C40_Witness ==
    \E i, j \in 1..Len(responses) :
        /\ i < j
        /\ responses[i].kind = "error"
        /\ ~responses[j].start.modelLoaded /\ ~responses[j].start.modelLoading
        /\ responses[j].id > responses[i].id
        /\ responses[j].kind = "result" /\ responses[j].loaded
        /\ modelLoaded

====
